---- MODULE Spec2Model ----
(***************************************************************************)
(* TCP authentication datapath of the enforcer (enforcer/datapath_tcp.go). *)
(* Each enforcer is a Datapath value: its connection objects, the five     *)
(* connection caches, its PUContext and the effects of the packet it       *)
(* handled last.  The handlers are operators from a Datapath and a packet  *)
(* to a Datapath, a packet and an error flag, written as the Go code is.   *)
(***************************************************************************)
EXTENDS Integers, Sequences, FiniteSets, TLC

\* ------------------------------------------------------------------ bounds
MaxConns == 1      \* connection objects one enforcer allocates
MaxNonce == 3      \* nonce values 1..MaxNonce
MaxFlows == 2      \* connection objects of a datapath shared by workers
MaxCalls == 4      \* calls the workers make
MaxOff == 4        \* calls made on a flow after it has left the handshake order

\* --------------------------------------------------------------- constants
Nonces  == 1..MaxNonce
NoNonce == 0

Enforcers == {"A", "B"}
\* IP addresses: the PU of enforcer e has address e; X and Y are unprotected
\* hosts.  Every flow runs between port LocalPort of a PU and port
\* ServerPort of its peer.
Peer(e) == IF e = "A" THEN "B" ELSE "A"
Remotes(e) == {Peer(e), "X", "Y"}
LocalPort  == "1024"
ServerPort == "80"

\* p.TCPFlags & packet.TCPSynAckMask: the four values the dispatchers switch on
TCPSynMask    == "SYN"
TCPSynAckMask == "SYNACK"
TCPAckMask    == "ACK"
NoSynAckFlags == "NONE"      \* neither SYN nor ACK set (RST only, FIN only)
Flags == {TCPSynMask, TCPSynAckMask, TCPAckMask, NoSynAckFlags}

States == {"SynSend", "SynReceived", "SynAckSend", "SynAckReceived", "AckSend", "Data"}

\* ------------------------------------------------------------------ tokens
\* The bytes of a TCP payload.  kind "none": empty; "bad": bytes the token
\* engine cannot decode; "tok": a signed token.  T is the claim set (tags),
\* LCL and RMT the nonces of the claims, nonce the nonce embedded in the
\* token by the engine.
NoData == [kind |-> "none", ack |-> FALSE, T |-> {}, LCL |-> NoNonce, RMT |-> NoNonce, nonce |-> NoNonce]
BadData == [kind |-> "bad", ack |-> FALSE, T |-> {}, LCL |-> NoNonce, RMT |-> NoNonce, nonce |-> NoNonce]

Token(ack, T, lcl, rmt, n) ==
    [kind |-> "tok", ack |-> ack, T |-> T, LCL |-> lcl, RMT |-> rmt, nonce |-> n]

TransmitterLabel == "$id"
PortNumberLabelString == "@port"

Tag(k, v) == <<k, v>>

\* claims.T.Get(key)
HasKey(T, k) == \E t \in T : t[1] = k
GetKey(T, k) == IF HasKey(T, k) THEN (CHOOSE t \in T : t[1] = k)[2] ELSE ""

\* tokenEngine.CreateAndSign(ack, claims): the token and its nonce, or an
\* error with empty results.  n is the nonce the engine draws, ok whether
\* signing succeeds.
CreateAndSign(ack, T, lcl, rmt, n, ok) ==
    IF ok
    THEN [token |-> Token(ack, T, lcl, rmt, IF ack THEN NoNonce ELSE n),
          nonce |-> IF ack THEN NoNonce ELSE n, err |-> FALSE]
    ELSE [token |-> NoData, nonce |-> NoNonce, err |-> TRUE]

\* tokenEngine.Decode(ack, data, key): claims, nonce and certificate of a
\* token of the asked shape; an error for anything else.
Decode(ack, data) ==
    IF data.kind = "tok" /\ data.ack = ack
    THEN [T |-> data.T, LCL |-> data.LCL, RMT |-> data.RMT, nonce |-> data.nonce,
          cert |-> GetKey(data.T, TransmitterLabel), err |-> FALSE]
    ELSE [T |-> {}, LCL |-> NoNonce, RMT |-> NoNonce, nonce |-> NoNonce,
          cert |-> "", err |-> TRUE]

\* tokenEngine.Randomize(token): rewrites the nonce embedded in the token
\* buffer and returns it; an error with an empty nonce otherwise.
Randomize(token, n, ok) ==
    IF ok /\ token.kind = "tok"
    THEN [token |-> [token EXCEPT !.nonce = n], nonce |-> n, err |-> FALSE]
    ELSE [token |-> token, nonce |-> NoNonce, err |-> TRUE]

\* ----------------------------------------------------------------- packets
Packet(src, sport, dst, dport, flags, mark, opt, data) ==
    [src |-> src, sport |-> sport, dst |-> dst, dport |-> dport,
     flags |-> flags, mark |-> mark, opt |-> opt, data |-> data]

L4FlowHash(p) == <<p.src, p.sport, p.dst, p.dport>>
L4ReverseFlowHash(p) == <<p.dst, p.dport, p.src, p.sport>>

PacketTypeNetwork == "net"
PacketTypeApplication == "app"
\* the local port of the flow: the destination port of a network packet,
\* the source port of an application packet
SourcePortHash(p, stage) == IF stage = PacketTypeNetwork THEN p.dport ELSE p.sport

\* CheckTCPAuthenticationOption: TRUE when the option is there
CheckTCPAuthenticationOption(p) == p.opt
ReadTCPData(p) == p.data
\* TCPDataAttach(options, data): option and token payload are written
TCPDataAttach(p, data) == [p EXCEPT !.opt = TRUE, !.data = data]
\* TCPDataDetach + DropDetachedBytes: option and token payload are removed
TCPDataDetach(p) == [p EXCEPT !.opt = FALSE, !.data = NoData]

\* ------------------------------------------------------------------ caches
\* A cache is a function from its present keys to connection ids.
EmptyCache == [k \in {} |-> 0]
Has(c, k) == k \in DOMAIN c
AddOrUpdate(c, k, v) == [x \in (DOMAIN c) \cup {k} |-> IF x = k THEN v ELSE c[x]]
Remove(c, k) == [x \in (DOMAIN c) \ {k} |-> c[x]]

\* ------------------------------------------------------------------ policy
Accept == "Accept"
Reject == "Reject"
NoPolicy == [Action |-> "None", id |-> "none"]
Policy(action, id) == [Action |-> action, id |-> id]

\* A rule is a tag selector and a FlowPolicy; it matches a claim set that
\* holds every tag of the selector.  Search returns the first matching rule
\* or a negative index.
Rule(sel, plc) == [sel |-> sel, policy |-> plc]
Matching(rules, T) == {i \in 1..Len(rules) : rules[i].sel \subseteq T}
Search(rules, T) ==
    IF Matching(rules, T) = {}
    THEN [index |-> -1, policy |-> NoPolicy]
    ELSE LET i == CHOOSE j \in Matching(rules, T) : \A k \in Matching(rules, T) : j <= k
         IN  [index |-> i, policy |-> rules[i].policy]

\* The rule sets of a PUContext (the same policy on every PU).
RejectRcvRules == << Rule({Tag("env", "bad")}, Policy(Reject, "rcv-reject")) >>
AcceptRcvRules == << Rule({Tag("app", "web"), Tag(PortNumberLabelString, ServerPort)},
                          Policy(Accept, "rcv-web-server")),
                     Rule({Tag("app", "web"), Tag(PortNumberLabelString, LocalPort)},
                          Policy(Accept, "rcv-web-local")) >>
RejectTxtRules == << Rule({Tag("env", "bad")}, Policy(Reject, "txt-reject")) >>
AcceptTxtRules == << Rule({Tag("app", "web")}, Policy(Accept, "txt-web")) >>

\* ACL.GetMatchingAction(ip, port) of NetworkACLS and ApplicationACLs: host X
\* is accepted, host Y rejected, and no rule matches any other address.
GetMatchingAction(ip, port) ==
    IF ip = "X" THEN [plc |-> Policy(Accept, "acl-x"), err |-> FALSE]
    ELSE IF ip = "Y" THEN [plc |-> Policy(Reject, "acl-y"), err |-> FALSE]
    ELSE [plc |-> NoPolicy, err |-> TRUE]

\* ------------------------------------------------------------- connections
NoAuth == [LocalContext |-> NoNonce, RemoteContext |-> NoNonce,
           RemoteContextID |-> "", RemotePublicKey |-> ""]

\* initAuthInfo: a random 32-byte nonce n becomes the LocalContext
initAuthInfo(auth, n) == [auth EXCEPT !.LocalContext = n]

\* NewTCPConnection
NewTCPConnection(n) ==
    [State |-> "SynSend", Auth |-> initAuthInfo(NoAuth, n), Context |-> FALSE,
     ServiceConnection |-> FALSE, FlowPolicy |-> NoPolicy]

\* ---------------------------------------------------------------- datapath
LocalContainer  == "LocalContainer"
RemoteContainer == "RemoteContainer"
LocalServer     == "LocalServer"
Modes == {LocalContainer, RemoteContainer, LocalServer}

DefaultNetwork == "0.0.0.0/0"
PUMark     == "100"      \* the cgroup mark of the PU's processes
GlobalMark == "99"       \* strconv.Itoa(cgnetcls.Initialmarkval - 1)
Marks == {PUMark, GlobalMark}

\* The PUContext of an enforcer's PU.
NewPUContext(e) ==
    [Identity |-> {Tag(TransmitterLabel, e), Tag("app", "web")},
     externalIPCache |-> EmptyCache,
     synToken |-> NoData,
     synValid |-> FALSE]          \* synExpiration.After(time.Now())

\* The Datapath of enforcer e in mode m with mutual authorization mu.
\* Containers are registered by IP, a host process by mark and listening port.
NewDatapath(e, m, mu) ==
    [mode |-> m, mutualAuthorization |-> mu,
     puFromIP |-> IF m = LocalServer THEN {} ELSE {e},
     puFromMark |-> IF m = LocalServer THEN {PUMark} ELSE {},
     puFromPort |-> IF m = LocalServer THEN {ServerPort} ELSE {},
     ctx |-> NewPUContext(e),
     conns |-> << >>,
     appOrig |-> EmptyCache, appReply |-> EmptyCache,
     netOrig |-> EmptyCache, netReply |-> EmptyCache,
     sourcePort |-> EmptyCache,
     reports |-> << >>, marks |-> << >>]

GetState(d, cid) == d.conns[cid].State
SetState(d, cid, s) == [d EXCEPT !.conns[cid].State = s]

\* collector calls and conntrack calls made while the packet is handled
Report(d, kind, reason) == [d EXCEPT !.reports = Append(@, [kind |-> kind, reason |-> reason])]
reportRejectedFlow(d, reason) == Report(d, "rejected", reason)
reportAcceptedFlow(d) == Report(d, "accepted", "")
reportExternalServiceFlow(d) == Report(d, "external", "")
reportReverseExternalServiceFlow(d) == Report(d, "reverse-external", "")
ConntrackTableUpdateMark(d, src, dst, sport, dport) ==
    [d EXCEPT !.marks = Append(@, <<src, sport, dst, dport>>)]

\* What a handler returns: the datapath and the packet as it leaves them,
\* the error flag and the policy (action) it returns.
Ret(d, p, err, action) == [d |-> d, p |-> p, err |-> err, action |-> action]

\* contextFromIP: TRUE when a PUContext is found
contextFromIP(d, app, packetIP, mark, port) ==
    IF packetIP \in d.puFromIP THEN TRUE
    ELSE IF d.mode = LocalContainer THEN FALSE
    ELSE IF DefaultNetwork \in d.puFromIP THEN TRUE
    ELSE IF app THEN mark \in d.puFromMark
    ELSE port \in d.puFromPort

\* ----------------------------------------------------------- token wrappers
\* The inputs of one entry-point call that the code does not decide:
\*   n0     the nonce initAuthInfo draws for a new connection
\*   n1     the nonce the token engine draws
\*   fault  which collaborator fails, if any
\*   svc    the service hook marks the connection a service connection
Faults == {"none", "pre", "post", "sign", "rand", "acklen"}

\* createAckPacketToken with the two nonces in each other's place
createAckPacketTokenSwapped(ctx, auth, in) ==
    LET c == CreateAndSign(TRUE, {}, auth.RemoteContext, auth.LocalContext, in.n1, in.fault # "sign")
    IN  [token |-> c.token, err |-> c.err]

\* createAckPacketToken
createAckPacketToken(ctx, auth, in) ==
    LET c == CreateAndSign(TRUE, {}, auth.LocalContext, auth.RemoteContext, in.n1, in.fault # "sign")
    IN  [token |-> c.token, err |-> c.err]

\* createSynPacketToken: the cached token with a new nonce while it has not
\* expired, a new token otherwise.  A signing error is swallowed: the
\* function returns an empty token and no error.
createSynPacketToken(ctx, auth, in) ==
    LET cached == ctx.synValid /\ ctx.synToken.kind # "none"
        r == Randomize(ctx.synToken, in.n1, in.fault # "rand")
        auth1 == IF cached THEN [auth EXCEPT !.LocalContext = r.nonce] ELSE auth
        c == CreateAndSign(FALSE, ctx.Identity, NoNonce, NoNonce, in.n1, in.fault # "sign")
    IN  IF cached /\ ~r.err
        THEN [ctx |-> [ctx EXCEPT !.synToken = r.token], auth |-> auth1,
              token |-> r.token, err |-> FALSE]
        ELSE IF c.err
        THEN [ctx |-> [ctx EXCEPT !.synToken = c.token],
              auth |-> [auth1 EXCEPT !.LocalContext = c.nonce],
              token |-> NoData, err |-> FALSE]
        ELSE [ctx |-> [ctx EXCEPT !.synToken = c.token, !.synValid = TRUE],
              auth |-> [auth1 EXCEPT !.LocalContext = c.nonce],
              token |-> c.token, err |-> FALSE]

\* createSynAckPacketToken: identity and the remote nonce, signed; the token
\* is stored in context.synToken and its nonce in auth.LocalContext.
createSynAckPacketToken(ctx, auth, in) ==
    LET c == CreateAndSign(FALSE, ctx.Identity, NoNonce, auth.RemoteContext, in.n1, in.fault # "sign")
    IN  [ctx |-> [ctx EXCEPT !.synToken = c.token],
         auth |-> [auth EXCEPT !.LocalContext = c.nonce],
         token |-> IF c.err THEN NoData ELSE c.token, err |-> FALSE]

\* parsePacketToken storing the nonce of the token as the local context too
parsePacketTokenBothContexts(auth, data) ==
    LET t == Decode(FALSE, data)
    IN  IF t.err THEN [auth |-> auth, T |-> {}, err |-> TRUE]
        ELSE IF ~HasKey(t.T, TransmitterLabel) THEN [auth |-> auth, T |-> {}, err |-> TRUE]
        ELSE [auth |-> [auth EXCEPT !.RemotePublicKey = t.cert,
                                    !.RemoteContext = t.nonce,
                                    !.LocalContext = t.nonce,
                                    !.RemoteContextID = GetKey(t.T, TransmitterLabel)],
              T |-> t.T, err |-> FALSE]

\* parsePacketToken storing the certificate and the nonce before it looks
\* for the transmitter label
parsePacketTokenStoresFirst(auth, data) ==
    LET t == Decode(FALSE, data)
        stored == [auth EXCEPT !.RemotePublicKey = t.cert, !.RemoteContext = t.nonce]
    IN  IF t.err THEN [auth |-> auth, T |-> {}, err |-> TRUE]
        ELSE IF ~HasKey(t.T, TransmitterLabel) THEN [auth |-> stored, T |-> {}, err |-> TRUE]
        ELSE [auth |-> [stored EXCEPT !.RemoteContextID = GetKey(t.T, TransmitterLabel)],
              T |-> t.T, err |-> FALSE]

\* parsePacketToken
parsePacketToken(auth, data) ==
    LET t == Decode(FALSE, data)
    IN  IF t.err THEN [auth |-> auth, T |-> {}, err |-> TRUE]
        ELSE IF ~HasKey(t.T, TransmitterLabel) THEN [auth |-> auth, T |-> {}, err |-> TRUE]
        ELSE [auth |-> [auth EXCEPT !.RemotePublicKey = t.cert,
                                    !.RemoteContext = t.nonce,
                                    !.RemoteContextID = GetKey(t.T, TransmitterLabel)],
              T |-> t.T, err |-> FALSE]

\* parseAckToken comparing only the remote nonce of the token
parseAckTokenRemoteNonceOnly(auth, data) ==
    LET t == Decode(TRUE, data)
    IN  IF t.err THEN TRUE
        ELSE t.RMT # auth.LocalContext

\* parseAckToken
parseAckToken(auth, data) ==
    LET t == Decode(TRUE, data)
    IN  IF t.err THEN TRUE
        ELSE t.RMT # auth.LocalContext \/ t.LCL # auth.RemoteContext

\* ------------------------------------------------------ application handlers
\* processApplicationSynPacket, the destination is in the external IP
\* cache, passing the packet without tracking the flow
processApplicationSynPacketExternalUntracked(d, p, cid) ==
    Ret(d, p, FALSE, d.ctx.externalIPCache[<<p.dst, p.dport>>])

\* processApplicationSynPacket, the destination is in the external IP
\* cache: the flow is tracked and the packet passed with the cached policy
processApplicationSynPacketExternal(d, p, cid) ==
    Ret([d EXCEPT !.appOrig = AddOrUpdate(@, L4FlowHash(p), cid),
                  !.sourcePort = AddOrUpdate(@, SourcePortHash(p, PacketTypeApplication), cid)],
        p, FALSE, d.ctx.externalIPCache[<<p.dst, p.dport>>])

\* processApplicationSynPacket, the destination is not in the cache: a token
\* is created and attached
processApplicationSynPacketToken(d, p, cid, in) ==
    LET tk == createSynPacketToken(d.ctx, d.conns[cid].Auth, in)
        d1 == [d EXCEPT !.ctx = tk.ctx, !.conns[cid].Auth = tk.auth]
        d2 == SetState(d1, cid, "SynSend")
        d3 == [d2 EXCEPT !.appOrig = AddOrUpdate(@, L4FlowHash(p), cid),
                         !.sourcePort = AddOrUpdate(@, SourcePortHash(p, PacketTypeApplication), cid)]
    IN  IF tk.err THEN Ret(d1, p, TRUE, NoPolicy)
        ELSE Ret(d3, TCPDataAttach(p, tk.token), FALSE, NoPolicy)

\* processApplicationSynPacket
processApplicationSynPacket(d, p, cid, in) ==
    IF Has(d.ctx.externalIPCache, <<p.dst, p.dport>>)
    THEN processApplicationSynPacketExternal(d, p, cid)
    ELSE processApplicationSynPacketToken(d, p, cid, in)

\* processApplicationSynAckPacket answering in SynReceived only
processApplicationSynAckPacketOnlySynReceived(d, p, cid, in) ==
    LET conn == d.conns[cid]
        dm == ConntrackTableUpdateMark(d, p.dst, p.src, p.dport, p.sport)
        d0 == SetState(d, cid, "SynAckSend")
        tk == createSynAckPacketToken(d0.ctx, d0.conns[cid].Auth, in)
        d1 == [d0 EXCEPT !.ctx = tk.ctx, !.conns[cid].Auth = tk.auth]
    IN  IF conn.State = "Data" /\ ~conn.ServiceConnection
        THEN Ret([dm EXCEPT !.netOrig = Remove(@, L4FlowHash(p)),
                            !.appReply = Remove(@, L4ReverseFlowHash(p))],
                 p, FALSE, NoPolicy)
        ELSE IF conn.State = "SynReceived"
        THEN IF tk.err THEN Ret(d1, p, TRUE, NoPolicy)
             ELSE Ret(d1, TCPDataAttach(p, tk.token), FALSE, NoPolicy)
        ELSE Ret(d, p, TRUE, NoPolicy)

\* processApplicationSynAckPacket
processApplicationSynAckPacket(d, p, cid, in) ==
    LET conn == d.conns[cid]
        dm == ConntrackTableUpdateMark(d, p.dst, p.src, p.dport, p.sport)
        d0 == SetState(d, cid, "SynAckSend")
        tk == createSynAckPacketToken(d0.ctx, d0.conns[cid].Auth, in)
        d1 == [d0 EXCEPT !.ctx = tk.ctx, !.conns[cid].Auth = tk.auth]
    IN  IF conn.State = "Data" /\ ~conn.ServiceConnection
        THEN Ret([dm EXCEPT !.netOrig = Remove(@, L4FlowHash(p)),
                            !.appReply = Remove(@, L4ReverseFlowHash(p))],
                 p, FALSE, NoPolicy)
        ELSE IF conn.State \in {"SynReceived", "SynAckSend"}
        THEN IF tk.err THEN Ret(d1, p, TRUE, NoPolicy)
             ELSE Ret(d1, TCPDataAttach(p, tk.token), FALSE, NoPolicy)
        ELSE Ret(d, p, TRUE, NoPolicy)

\* processApplicationAckPacket leaving the source port cache as it is
processApplicationAckPacketKeepsSourcePort(d, p, cid, in) ==
    LET conn == d.conns[cid]
        tk == createAckPacketToken(d.ctx, conn.Auth, in)
        d1 == SetState(d, cid, "AckSend")
        d2 == IF ~conn.ServiceConnection /\ p.src # p.dst
              THEN ConntrackTableUpdateMark(d1, p.src, p.dst, p.sport, p.dport)
              ELSE d1
    IN  IF conn.State = "Data" THEN Ret(d, p, FALSE, NoPolicy)
        ELSE IF conn.State \in {"SynAckReceived", "SynSend"}
        THEN IF tk.err THEN Ret(d, p, TRUE, NoPolicy)
             ELSE IF in.fault = "acklen" THEN Ret(d, p, TRUE, NoPolicy)
             ELSE Ret(d2, TCPDataAttach(p, tk.token), FALSE, NoPolicy)
        ELSE IF conn.State = "AckSend"
        THEN Ret(SetState(d, cid, "Data"), p, FALSE, NoPolicy)
        ELSE Ret(d, p, TRUE, NoPolicy)

\* processApplicationAckPacket attaching the ACK token in SynAckReceived only
processApplicationAckPacketOnlySynAckReceived(d, p, cid, in) ==
    LET conn == d.conns[cid]
        tk == createAckPacketToken(d.ctx, conn.Auth, in)
        d1 == SetState(d, cid, "AckSend")
        d2 == IF ~conn.ServiceConnection /\ p.src # p.dst
              THEN ConntrackTableUpdateMark(d1, p.src, p.dst, p.sport, p.dport)
              ELSE d1
    IN  IF conn.State = "Data" THEN Ret(d, p, FALSE, NoPolicy)
        ELSE IF conn.State = "SynAckReceived"
        THEN IF tk.err THEN Ret(d, p, TRUE, NoPolicy)
             ELSE IF in.fault = "acklen" THEN Ret(d, p, TRUE, NoPolicy)
             ELSE Ret(d2, TCPDataAttach(p, tk.token), FALSE, NoPolicy)
        ELSE IF conn.State = "AckSend"
        THEN Ret(SetState([d EXCEPT !.sourcePort = Remove(@, SourcePortHash(p, PacketTypeApplication))],
                          cid, "Data"),
                 p, FALSE, NoPolicy)
        ELSE Ret(d, p, TRUE, NoPolicy)

\* processApplicationAckPacket
processApplicationAckPacket(d, p, cid, in) ==
    LET conn == d.conns[cid]
        tk == createAckPacketToken(d.ctx, conn.Auth, in)
        d1 == SetState(d, cid, "AckSend")
        d2 == IF ~conn.ServiceConnection /\ p.src # p.dst
              THEN ConntrackTableUpdateMark(d1, p.src, p.dst, p.sport, p.dport)
              ELSE d1
    IN  IF conn.State = "Data" THEN Ret(d, p, FALSE, NoPolicy)
        ELSE IF conn.State \in {"SynAckReceived", "SynSend"}
        THEN IF tk.err THEN Ret(d, p, TRUE, NoPolicy)
             ELSE IF in.fault = "acklen" THEN Ret(d, p, TRUE, NoPolicy)
             ELSE Ret(d2, TCPDataAttach(p, tk.token), FALSE, NoPolicy)
        ELSE IF conn.State = "AckSend"
        THEN Ret(SetState([d EXCEPT !.sourcePort = Remove(@, SourcePortHash(p, PacketTypeApplication))],
                          cid, "Data"),
                 p, FALSE, NoPolicy)
        ELSE Ret(d, p, TRUE, NoPolicy)

\* processApplicationTCPPacket
processApplicationTCPPacket(d, p, cid, in) ==
    IF cid = 0 THEN Ret(d, p, FALSE, NoPolicy)
    ELSE IF p.flags = TCPSynMask THEN processApplicationSynPacket(d, p, cid, in)
    ELSE IF p.flags = TCPAckMask THEN processApplicationAckPacket(d, p, cid, in)
    ELSE IF p.flags = TCPSynAckMask THEN processApplicationSynAckPacket(d, p, cid, in)
    ELSE Ret(d, p, FALSE, NoPolicy)

\* ---------------------------------------------------------- network handlers
\* releaseFlow
releaseFlow(d, p) ==
    LET d1 == [d EXCEPT !.appOrig = Remove(@, L4FlowHash(p)),
                        !.sourcePort = Remove(@, SourcePortHash(p, PacketTypeApplication))]
        d2 == ConntrackTableUpdateMark(d1, p.dst, p.src, p.dport, p.sport)
    IN  reportReverseExternalServiceFlow(d2)

\* processNetworkSynPacket searching the accept rules before the reject rules
processNetworkSynPacketAcceptFirst(d, p, cid) ==
    LET acl == GetMatchingAction(p.src, p.dport)
        da == reportExternalServiceFlow(d)
        tk == parsePacketToken(d.conns[cid].Auth, ReadTCPData(p))
        d1 == [d EXCEPT !.conns[cid].Auth = tk.auth]
        p1 == TCPDataDetach(p)
        T == tk.T \cup {Tag(PortNumberLabelString, p.dport)}
        rej == Search(RejectRcvRules, T)
        acc == Search(AcceptRcvRules, T)
        d2 == SetState(d1, cid, "SynReceived")
        d3 == [d2 EXCEPT !.netOrig = AddOrUpdate(@, L4FlowHash(p), cid),
                         !.appReply = AddOrUpdate(@, L4ReverseFlowHash(p), cid),
                         !.conns[cid].FlowPolicy = acc.policy]
    IN  IF ~CheckTCPAuthenticationOption(p)
        THEN IF acl.err \/ acl.plc.Action = Reject
             THEN Ret(da, p, TRUE, NoPolicy)
             ELSE Ret([SetState(da, cid, "Data") EXCEPT
                          !.netOrig = AddOrUpdate(@, L4FlowHash(p), cid),
                          !.appReply = AddOrUpdate(@, L4ReverseFlowHash(p), cid)],
                      p, FALSE, acl.plc)
        ELSE IF tk.err
        THEN Ret(reportRejectedFlow(d1, "InvalidToken"), p, TRUE, NoPolicy)
        ELSE IF acc.index >= 0
        THEN Ret(d3, p1, FALSE, acc.policy)
        ELSE Ret(reportRejectedFlow(d1, "PolicyDrop"), p1, TRUE, NoPolicy)

\* processNetworkSynPacket storing the connection in app_reply under the
\* flow hash of the SYN
processNetworkSynPacketReplyUnderFlowHash(d, p, cid) ==
    LET acl == GetMatchingAction(p.src, p.dport)
        da == reportExternalServiceFlow(d)
        tk == parsePacketToken(d.conns[cid].Auth, ReadTCPData(p))
        d1 == [d EXCEPT !.conns[cid].Auth = tk.auth]
        p1 == TCPDataDetach(p)
        T == tk.T \cup {Tag(PortNumberLabelString, p.dport)}
        rej == Search(RejectRcvRules, T)
        acc == Search(AcceptRcvRules, T)
        d2 == SetState(d1, cid, "SynReceived")
        d3 == [d2 EXCEPT !.netOrig = AddOrUpdate(@, L4FlowHash(p), cid),
                         !.appReply = AddOrUpdate(@, L4FlowHash(p), cid),
                         !.conns[cid].FlowPolicy = acc.policy]
    IN  IF ~CheckTCPAuthenticationOption(p)
        THEN IF acl.err \/ acl.plc.Action = Reject
             THEN Ret(da, p, TRUE, NoPolicy)
             ELSE Ret([SetState(da, cid, "Data") EXCEPT
                          !.netOrig = AddOrUpdate(@, L4FlowHash(p), cid),
                          !.appReply = AddOrUpdate(@, L4FlowHash(p), cid)],
                      p, FALSE, acl.plc)
        ELSE IF tk.err
        THEN Ret(reportRejectedFlow(d1, "InvalidToken"), p, TRUE, NoPolicy)
        ELSE IF rej.index >= 0
        THEN Ret(reportRejectedFlow(d1, "PolicyDrop"), p1, TRUE, NoPolicy)
        ELSE IF acc.index >= 0
        THEN Ret(d3, p1, FALSE, acc.policy)
        ELSE Ret(reportRejectedFlow(d1, "PolicyDrop"), p1, TRUE, NoPolicy)

\* processNetworkSynPacket
processNetworkSynPacket(d, p, cid) ==
    LET acl == GetMatchingAction(p.src, p.dport)
        da == reportExternalServiceFlow(d)
        tk == parsePacketToken(d.conns[cid].Auth, ReadTCPData(p))
        d1 == [d EXCEPT !.conns[cid].Auth = tk.auth]
        p1 == TCPDataDetach(p)
        T == tk.T \cup {Tag(PortNumberLabelString, p.dport)}
        rej == Search(RejectRcvRules, T)
        acc == Search(AcceptRcvRules, T)
        d2 == SetState(d1, cid, "SynReceived")
        d3 == [d2 EXCEPT !.netOrig = AddOrUpdate(@, L4FlowHash(p), cid),
                         !.appReply = AddOrUpdate(@, L4ReverseFlowHash(p), cid),
                         !.conns[cid].FlowPolicy = acc.policy]
    IN  IF ~CheckTCPAuthenticationOption(p)
        THEN IF acl.err \/ acl.plc.Action = Reject
             THEN Ret(da, p, TRUE, NoPolicy)
             ELSE Ret([SetState(da, cid, "Data") EXCEPT
                          !.netOrig = AddOrUpdate(@, L4FlowHash(p), cid),
                          !.appReply = AddOrUpdate(@, L4ReverseFlowHash(p), cid)],
                      p, FALSE, acl.plc)
        ELSE IF tk.err
        THEN Ret(reportRejectedFlow(d1, "InvalidToken"), p, TRUE, NoPolicy)
        ELSE IF rej.index >= 0
        THEN Ret(reportRejectedFlow(d1, "PolicyDrop"), p1, TRUE, NoPolicy)
        ELSE IF acc.index >= 0
        THEN Ret(d3, p1, FALSE, acc.policy)
        ELSE Ret(reportRejectedFlow(d1, "PolicyDrop"), p1, TRUE, NoPolicy)

\* processNetworkSynAckPacket evaluating the policy whatever
\* mutualAuthorization says
processNetworkSynAckPacketAlwaysMutual(d, p, cid) ==
    LET key == <<p.src, p.sport>>
        acl == GetMatchingAction(p.src, p.sport)
        addErr == Has(d.ctx.externalIPCache, key)
        dAdd == [d EXCEPT !.ctx.externalIPCache = AddOrUpdate(@, key, acl.plc)]
        tk == parsePacketToken(d.conns[cid].Auth, ReadTCPData(p))
        d1 == [d EXCEPT !.conns[cid].Auth = tk.auth]
        p1 == TCPDataDetach(p)
        rej == Search(RejectTxtRules, tk.T)
        acc == Search(AcceptTxtRules, tk.T)
        d2 == [SetState(d1, cid, "SynAckReceived") EXCEPT
                  !.netReply = AddOrUpdate(@, L4FlowHash(p), cid)]
    IN  IF ~CheckTCPAuthenticationOption(p)
        THEN IF Has(d.ctx.externalIPCache, key)
             THEN Ret(releaseFlow(d, p), p, FALSE, d.ctx.externalIPCache[key])
             ELSE IF acl.err \/ acl.plc.Action = Reject
             THEN Ret(reportExternalServiceFlow(d), p, TRUE, NoPolicy)
             ELSE IF addErr
             THEN Ret(releaseFlow(d, p), p, TRUE, NoPolicy)
             ELSE Ret(releaseFlow(SetState(dAdd, cid, "Data"), p), p, FALSE, acl.plc)
        ELSE IF ReadTCPData(p).kind = "none"
        THEN Ret(reportRejectedFlow(d, "MissingToken"), p, TRUE, NoPolicy)
        ELSE IF tk.err
        THEN Ret(reportRejectedFlow(d1, "MissingToken"), p, TRUE, NoPolicy)
        ELSE IF rej.index >= 0
        THEN Ret(reportRejectedFlow(d1, "PolicyDrop"), p1, TRUE, NoPolicy)
        ELSE IF acc.index >= 0
        THEN Ret(d2, p1, FALSE, acc.policy)
        ELSE Ret(reportRejectedFlow(d1, "PolicyDrop"), p1, TRUE, NoPolicy)

\* processNetworkSynAckPacket dropping a SYN-ACK without the option only on
\* a Reject of the ACLs, not on their error
processNetworkSynAckPacketAclErrorAccepts(d, p, cid) ==
    LET key == <<p.src, p.sport>>
        acl == GetMatchingAction(p.src, p.sport)
        addErr == Has(d.ctx.externalIPCache, key)     \* externalIPCache.Add of a present key
        dAdd == [d EXCEPT !.ctx.externalIPCache = AddOrUpdate(@, key, acl.plc)]
        tk == parsePacketToken(d.conns[cid].Auth, ReadTCPData(p))
        d1 == [d EXCEPT !.conns[cid].Auth = tk.auth]
        p1 == TCPDataDetach(p)
        rej == Search(RejectTxtRules, tk.T)
        acc == Search(AcceptTxtRules, tk.T)
        d2 == [SetState(d1, cid, "SynAckReceived") EXCEPT
                  !.netReply = AddOrUpdate(@, L4FlowHash(p), cid)]
    IN  IF ~CheckTCPAuthenticationOption(p)
        THEN IF Has(d.ctx.externalIPCache, key)
             THEN Ret(releaseFlow(d, p), p, FALSE, d.ctx.externalIPCache[key])
             ELSE IF acl.plc.Action = Reject
             THEN Ret(reportExternalServiceFlow(d), p, TRUE, NoPolicy)
             ELSE IF addErr
             THEN Ret(releaseFlow(d, p), p, TRUE, NoPolicy)
             ELSE Ret(releaseFlow(SetState(dAdd, cid, "Data"), p), p, FALSE, acl.plc)
        ELSE IF ReadTCPData(p).kind = "none"
        THEN Ret(reportRejectedFlow(d, "MissingToken"), p, TRUE, NoPolicy)
        ELSE IF tk.err
        THEN Ret(reportRejectedFlow(d1, "MissingToken"), p, TRUE, NoPolicy)
        ELSE IF d.mutualAuthorization /\ rej.index >= 0
        THEN Ret(reportRejectedFlow(d1, "PolicyDrop"), p1, TRUE, NoPolicy)
        ELSE IF ~d.mutualAuthorization \/ acc.index >= 0
        THEN Ret(d2, p1, FALSE, acc.policy)
        ELSE Ret(reportRejectedFlow(d1, "PolicyDrop"), p1, TRUE, NoPolicy)

\* processNetworkSynAckPacket
processNetworkSynAckPacket(d, p, cid) ==
    LET key == <<p.src, p.sport>>
        acl == GetMatchingAction(p.src, p.sport)
        addErr == Has(d.ctx.externalIPCache, key)     \* externalIPCache.Add of a present key
        dAdd == [d EXCEPT !.ctx.externalIPCache = AddOrUpdate(@, key, acl.plc)]
        tk == parsePacketToken(d.conns[cid].Auth, ReadTCPData(p))
        d1 == [d EXCEPT !.conns[cid].Auth = tk.auth]
        p1 == TCPDataDetach(p)
        rej == Search(RejectTxtRules, tk.T)
        acc == Search(AcceptTxtRules, tk.T)
        d2 == [SetState(d1, cid, "SynAckReceived") EXCEPT
                  !.netReply = AddOrUpdate(@, L4FlowHash(p), cid)]
    IN  IF ~CheckTCPAuthenticationOption(p)
        THEN IF Has(d.ctx.externalIPCache, key)
             THEN Ret(releaseFlow(d, p), p, FALSE, d.ctx.externalIPCache[key])
             ELSE IF acl.err \/ acl.plc.Action = Reject
             THEN Ret(reportExternalServiceFlow(d), p, TRUE, NoPolicy)
             ELSE IF addErr
             THEN Ret(releaseFlow(d, p), p, TRUE, NoPolicy)
             ELSE Ret(releaseFlow(SetState(dAdd, cid, "Data"), p), p, FALSE, acl.plc)
        ELSE IF ReadTCPData(p).kind = "none"
        THEN Ret(reportRejectedFlow(d, "MissingToken"), p, TRUE, NoPolicy)
        ELSE IF tk.err
        THEN Ret(reportRejectedFlow(d1, "MissingToken"), p, TRUE, NoPolicy)
        ELSE IF d.mutualAuthorization /\ rej.index >= 0
        THEN Ret(reportRejectedFlow(d1, "PolicyDrop"), p1, TRUE, NoPolicy)
        ELSE IF ~d.mutualAuthorization \/ acc.index >= 0
        THEN Ret(d2, p1, FALSE, acc.policy)
        ELSE Ret(reportRejectedFlow(d1, "PolicyDrop"), p1, TRUE, NoPolicy)

\* processNetworkAckPacket passing an ACK untouched in AckSend only
processNetworkAckPacketAckSendOnly(d, p, cid) ==
    LET conn == d.conns[cid]
        p1 == TCPDataDetach(p)
        d1 == SetState(reportAcceptedFlow(d), cid, "Data")
        d2 == IF ~conn.ServiceConnection
              THEN ConntrackTableUpdateMark(d1, p.src, p.dst, p.sport, p.dport)
              ELSE d1
    IN  IF conn.State = "AckSend" THEN Ret(d, p, FALSE, NoPolicy)
        ELSE IF conn.State \in {"SynAckSend", "SynReceived"}
        THEN IF ~CheckTCPAuthenticationOption(p)
             THEN Ret(reportRejectedFlow(d, "InvalidFormat"), p, TRUE, NoPolicy)
             ELSE IF parseAckToken(conn.Auth, ReadTCPData(p))
             THEN Ret(reportRejectedFlow(d, "InvalidFormat"), p, TRUE, NoPolicy)
             ELSE Ret(d2, p1, FALSE, NoPolicy)
        ELSE IF conn.ServiceConnection THEN Ret(d, p, FALSE, NoPolicy)
        ELSE Ret(reportRejectedFlow(d, "InvalidState"), p, TRUE, NoPolicy)

\* processNetworkAckPacket checking the ACK token in SynAckReceived too
processNetworkAckPacketAlsoSynAckReceived(d, p, cid) ==
    LET conn == d.conns[cid]
        p1 == TCPDataDetach(p)
        d1 == SetState(reportAcceptedFlow(d), cid, "Data")
        d2 == IF ~conn.ServiceConnection
              THEN ConntrackTableUpdateMark(d1, p.src, p.dst, p.sport, p.dport)
              ELSE d1
    IN  IF conn.State \in {"Data", "AckSend"} THEN Ret(d, p, FALSE, NoPolicy)
        ELSE IF conn.State \in {"SynAckSend", "SynReceived", "SynAckReceived"}
        THEN IF ~CheckTCPAuthenticationOption(p)
             THEN Ret(reportRejectedFlow(d, "InvalidFormat"), p, TRUE, NoPolicy)
             ELSE IF parseAckToken(conn.Auth, ReadTCPData(p))
             THEN Ret(reportRejectedFlow(d, "InvalidFormat"), p, TRUE, NoPolicy)
             ELSE Ret(d2, p1, FALSE, NoPolicy)
        ELSE IF conn.ServiceConnection THEN Ret(d, p, FALSE, NoPolicy)
        ELSE Ret(reportRejectedFlow(d, "InvalidState"), p, TRUE, NoPolicy)

\* processNetworkAckPacket
processNetworkAckPacket(d, p, cid) ==
    LET conn == d.conns[cid]
        p1 == TCPDataDetach(p)
        d1 == SetState(reportAcceptedFlow(d), cid, "Data")
        d2 == IF ~conn.ServiceConnection
              THEN ConntrackTableUpdateMark(d1, p.src, p.dst, p.sport, p.dport)
              ELSE d1
    IN  IF conn.State \in {"Data", "AckSend"} THEN Ret(d, p, FALSE, NoPolicy)
        ELSE IF conn.State \in {"SynAckSend", "SynReceived"}
        THEN IF ~CheckTCPAuthenticationOption(p)
             THEN Ret(reportRejectedFlow(d, "InvalidFormat"), p, TRUE, NoPolicy)
             ELSE IF parseAckToken(conn.Auth, ReadTCPData(p))
             THEN Ret(reportRejectedFlow(d, "InvalidFormat"), p, TRUE, NoPolicy)
             ELSE Ret(d2, p1, FALSE, NoPolicy)
        ELSE IF conn.ServiceConnection THEN Ret(d, p, FALSE, NoPolicy)
        ELSE Ret(reportRejectedFlow(d, "InvalidState"), p, TRUE, NoPolicy)

\* processNetworkTCPPacket handling every packet that is not a SYN or a
\* SYN-ACK as an ACK
processNetworkTCPPacketOthersAsAck(d, p, cid) ==
    IF cid = 0 THEN Ret(d, p, FALSE, NoPolicy)
    ELSE IF p.flags = TCPSynMask THEN processNetworkSynPacket(d, p, cid)
    ELSE IF p.flags = TCPSynAckMask THEN processNetworkSynAckPacket(d, p, cid)
    ELSE processNetworkAckPacket(d, p, cid)

\* processNetworkTCPPacket
processNetworkTCPPacket(d, p, cid) ==
    IF cid = 0 THEN Ret(d, p, FALSE, NoPolicy)
    ELSE IF p.flags = TCPSynMask THEN processNetworkSynPacket(d, p, cid)
    ELSE IF p.flags = TCPAckMask THEN processNetworkAckPacket(d, p, cid)
    ELSE IF p.flags = TCPSynAckMask THEN processNetworkSynAckPacket(d, p, cid)
    ELSE Ret(d, p, FALSE, NoPolicy)

\* --------------------------------------------------------- state resolution
\* What a resolver returns: the datapath (a new connection is allocated in
\* it), the connection id (0: nil), the error flag, and whether the context
\* is a transient PU.
Res(d, cid, err, transient) == [d |-> d, cid |-> cid, err |-> err, transient |-> transient]

\* conn.Context = context under the connection lock, for the connection the
\* cache holds under hash or a new one
WithConnection(d, cache, hash, n0) ==
    IF Has(cache, hash)
    THEN Res([d EXCEPT !.conns[cache[hash]].Context = TRUE], cache[hash], FALSE, FALSE)
    ELSE Res([d EXCEPT !.conns = Append(@, [NewTCPConnection(n0) EXCEPT !.Context = TRUE])],
             Len(d.conns) + 1, FALSE, FALSE)

\* appSynRetrieveState
appSynRetrieveState(d, p, in) ==
    IF ~contextFromIP(d, TRUE, p.src, p.mark, p.sport)
    THEN Res(d, 0, TRUE, FALSE)
    ELSE WithConnection(d, d.appOrig, L4FlowHash(p), in.n0)

\* appRetrieveState (updateTimer only resets a time-to-live)
appRetrieveState(d, p) ==
    LET hash == L4FlowHash(p)
        cid == IF Has(d.appReply, hash) THEN d.appReply[hash]
               ELSE IF Has(d.appOrig, hash) THEN d.appOrig[hash] ELSE 0
    IN  IF cid = 0
        THEN IF d.mode # RemoteContainer /\ contextFromIP(d, TRUE, p.src, p.mark, p.sport)
             THEN Res([d EXCEPT !.puFromPort = @ \cup {p.sport}], 0, TRUE, FALSE)
             ELSE Res(d, 0, TRUE, FALSE)
        ELSE IF ~d.conns[cid].Context THEN Res(d, 0, TRUE, FALSE)
        ELSE Res(d, cid, FALSE, FALSE)

\* netSynRetrieveState returning a new connection with the transient PU
netSynRetrieveStateTransientConnection(d, p, in) ==
    IF ~contextFromIP(d, FALSE, p.dst, p.mark, p.dport)
    THEN IF d.mode # RemoteContainer
         THEN Res(WithConnection(d, d.netOrig, L4FlowHash(p), in.n0).d, 0, FALSE, TRUE)
         ELSE Res(d, 0, TRUE, FALSE)
    ELSE WithConnection(d, d.netOrig, L4FlowHash(p), in.n0)

\* netSynRetrieveState
netSynRetrieveState(d, p, in) ==
    IF ~contextFromIP(d, FALSE, p.dst, p.mark, p.dport)
    THEN IF d.mode # RemoteContainer
         THEN Res(d, 0, FALSE, TRUE)
         ELSE Res(d, 0, TRUE, FALSE)
    ELSE WithConnection(d, d.netOrig, L4FlowHash(p), in.n0)

\* netSynAckRetrieveState
netSynAckRetrieveState(d, p) ==
    LET key == SourcePortHash(p, PacketTypeNetwork)
    IN  IF ~Has(d.sourcePort, key) THEN Res(d, 0, TRUE, FALSE)
        ELSE IF ~d.conns[d.sourcePort[key]].Context THEN Res(d, 0, TRUE, FALSE)
        ELSE Res(d, d.sourcePort[key], FALSE, FALSE)

\* netRetrieveState
netRetrieveState(d, p) ==
    LET hash == L4FlowHash(p)
        cid == IF Has(d.netReply, hash) THEN d.netReply[hash]
               ELSE IF Has(d.netOrig, hash) THEN d.netOrig[hash] ELSE 0
    IN  IF cid = 0 THEN Res(d, 0, TRUE, FALSE)
        ELSE IF ~d.conns[cid].Context THEN Res(d, 0, TRUE, FALSE)
        ELSE Res(d, cid, FALSE, FALSE)

\* ------------------------------------------------------------- entry points
\* What an entry point returns: the datapath, the packet as it leaves, the
\* verdict ("accept": nil error, "drop": an error), the connection the packet
\* resolved to (0: none) and whether a handshake handler ran.
Out(d, p, verdict, cid, handled) ==
    [d |-> d, p |-> p, verdict |-> verdict, cid |-> cid, handled |-> handled]

\* the service hook may mark the connection a service connection
PreProcess(d, cid, in) ==
    IF in.svc THEN [d EXCEPT !.conns[cid].ServiceConnection = TRUE] ELSE d

ClearEffects(d) == [d EXCEPT !.reports = << >>, !.marks = << >>]

\* processNetworkTCPPackets returning the resolver's error for a SYN-ACK too
processNetworkTCPPacketsRejectsUnknown(d0, p, in) ==
    LET d == ClearEffects(d0)
        r == IF p.flags = TCPSynMask THEN netSynRetrieveState(d, p, in)
             ELSE IF p.flags = TCPSynAckMask THEN netSynAckRetrieveState(d, p)
             ELSE netRetrieveState(d, p)
        dpre == PreProcess(r.d, r.cid, in)
        h == processNetworkTCPPacket(dpre, p, r.cid)
    IN  IF r.err THEN Out(r.d, p, "drop", 0, FALSE)
        ELSE IF r.transient THEN Out(r.d, p, "accept", 0, FALSE)
        ELSE IF in.fault = "pre" THEN Out(r.d, p, "drop", r.cid, FALSE)
        ELSE IF h.err THEN Out(h.d, h.p, "drop", r.cid, TRUE)
        ELSE IF in.fault = "post" THEN Out(h.d, h.p, "drop", r.cid, TRUE)
        ELSE Out(h.d, h.p, "accept", r.cid, TRUE)

\* processNetworkTCPPackets reporting a rejected flow for a packet that
\* resolves to no connection
processNetworkTCPPacketsReportsMiss(d0, p, in) ==
    LET d == ClearEffects(d0)
        r == IF p.flags = TCPSynMask THEN netSynRetrieveState(d, p, in)
             ELSE IF p.flags = TCPSynAckMask THEN netSynAckRetrieveState(d, p)
             ELSE netRetrieveState(d, p)
        dpre == PreProcess(r.d, r.cid, in)
        h == processNetworkTCPPacket(dpre, p, r.cid)
    IN  IF r.err
        THEN Out(reportRejectedFlow(r.d, "InvalidState"), p,
                 IF p.flags = TCPSynAckMask THEN "accept" ELSE "drop", 0, FALSE)
        ELSE IF r.transient THEN Out(r.d, p, "accept", 0, FALSE)
        ELSE IF in.fault = "pre" THEN Out(r.d, p, "drop", r.cid, FALSE)
        ELSE IF h.err THEN Out(h.d, h.p, "drop", r.cid, TRUE)
        ELSE IF in.fault = "post" THEN Out(h.d, h.p, "drop", r.cid, TRUE)
        ELSE Out(h.d, h.p, "accept", r.cid, TRUE)

\* processNetworkTCPPackets
processNetworkTCPPackets(d0, p, in) ==
    LET d == ClearEffects(d0)
        r == IF p.flags = TCPSynMask THEN netSynRetrieveState(d, p, in)
             ELSE IF p.flags = TCPSynAckMask THEN netSynAckRetrieveState(d, p)
             ELSE netRetrieveState(d, p)
        dpre == PreProcess(r.d, r.cid, in)
        h == processNetworkTCPPacket(dpre, p, r.cid)
    IN  IF r.err
        THEN Out(r.d, p, IF p.flags = TCPSynAckMask THEN "accept" ELSE "drop", 0, FALSE)
        ELSE IF r.transient THEN Out(r.d, p, "accept", 0, FALSE)
        ELSE IF in.fault = "pre" THEN Out(r.d, p, "drop", r.cid, FALSE)
        ELSE IF h.err THEN Out(h.d, h.p, "drop", r.cid, TRUE)
        ELSE IF in.fault = "post" THEN Out(h.d, h.p, "drop", r.cid, TRUE)
        ELSE Out(h.d, h.p, "accept", r.cid, TRUE)

\* processApplicationTCPPackets
processApplicationTCPPackets(d0, p, in) ==
    LET d == ClearEffects(d0)
        r == IF p.flags = TCPSynMask THEN appSynRetrieveState(d, p, in)
             ELSE appRetrieveState(d, p)
        dpre == PreProcess(r.d, r.cid, in)
        h == processApplicationTCPPacket(dpre, p, r.cid, in)
    IN  IF r.err
        THEN Out(r.d, p, IF p.flags = TCPSynAckMask /\ p.mark = GlobalMark
                         THEN "accept" ELSE "drop", 0, FALSE)
        ELSE IF in.fault = "pre" THEN Out(r.d, p, "drop", r.cid, FALSE)
        ELSE IF h.err THEN Out(h.d, h.p, "drop", r.cid, TRUE)
        ELSE IF in.fault = "post" THEN Out(h.d, h.p, "drop", r.cid, TRUE)
        ELSE Out(h.d, h.p, "accept", r.cid, TRUE)

\* ------------------------------------------------------------- state machine
VARIABLES
    dp,        \* dp[e]: the Datapath of enforcer e
    wire,      \* the segments the enforcers have passed on to the network
    hp,        \* how far the calls made so far follow the handshake of one flow
    last,      \* what the last of those calls returned
    job,       \* job[w]: the call worker w is in, and the steps it has left
    begun,     \* the number of calls the workers have begun
    connLock,  \* connLock[i]: the worker holding the lock of connection i
    ctxLock    \* the worker holding the lock of the PUContext

vars == <<dp, wire, hp, last, job, begun, connLock, ctxLock>>
flow == <<wire, hp, last>>
workers == <<job, begun, connLock, ctxLock>>

Workers == {"w1", "w2"}
Unlocked == "-"


\* A nonce drawn at random differs from every nonce an enforcer holds as a
\* local context and from every nonce on the network.
LocalNonces(d) ==
    ({d.conns[i].Auth.LocalContext : i \in 1..Len(d.conns)} \cup {d.ctx.synToken.nonce}) \ {NoNonce}
WireNonces == UNION {{p.data.nonce, p.data.LCL, p.data.RMT} : p \in wire} \ {NoNonce}
JobNonces == UNION {{job[w].in.n0, job[w].in.n1} : w \in Workers} \ {NoNonce}
UsedNonces == UNION {LocalNonces(dp[e]) : e \in Enforcers} \cup WireNonces \cup JobNonces
Free == Nonces \ UsedNonces
Min(S) == CHOOSE x \in S : \A y \in S : x <= y
Fresh(S) == IF S = {} THEN NoNonce ELSE Min(S)

\* the second nonce a call draws from S: another one than the first; a call
\* that finds one nonce left draws once
Second(S) == IF S \ {Fresh(S)} = {} THEN Fresh(S) ELSE Fresh(S \ {Fresh(S)})
\* the inputs of one call: the two nonces are new, the rest is free
Input(f, s) == [n0 |-> Fresh(Free), n1 |-> Second(Free), fault |-> f, svc |-> s]
Inputs(faults) == {Input(f, FALSE) : f \in faults} \cup {Input("none", TRUE)}

\* the collaborators a packet from the application, from the network calls
AppFaults(fl) ==
    {"none", "pre", "post"}
      \cup (IF fl = NoSynAckFlags THEN {} ELSE {"sign"})
      \cup (IF fl = TCPSynMask THEN {"rand"} ELSE {})
      \cup (IF fl = TCPAckMask THEN {"acklen"} ELSE {})
NetFaults == {"none", "pre", "post"}

\* a SYN that resolves to no cached connection allocates one and draws a
\* nonce for it; an app-SYN and an app-SYN-ACK draw the nonce of their token
Allocates(cache, p) == p.flags = TCPSynMask /\ ~Has(cache, L4FlowHash(p))
Draws(cache, app, p) ==
    (IF Allocates(cache, p) THEN 1 ELSE 0)
      + (IF app /\ p.flags \in {TCPSynMask, TCPSynAckMask} THEN 1 ELSE 0)
CanHandle(d, cache, app, p) ==
    /\ Allocates(cache, p) => Len(d.conns) < MaxConns
    /\ Cardinality(Free) >= Draws(cache, app, p)

\* The connections no cache refers to are unreachable (the Go runtime frees
\* them); the others are numbered in allocation order.
Referenced(d) ==
    {d.appOrig[k] : k \in DOMAIN d.appOrig} \cup {d.appReply[k] : k \in DOMAIN d.appReply}
      \cup {d.netOrig[k] : k \in DOMAIN d.netOrig} \cup {d.netReply[k] : k \in DOMAIN d.netReply}
      \cup {d.sourcePort[k] : k \in DOMAIN d.sourcePort}
Renumber(d, i) == Cardinality({j \in Referenced(d) : j <= i})
Renumbered(d, c) == [k \in DOMAIN c |-> Renumber(d, c[k])]
Collect(d) ==
    [d EXCEPT !.conns = [k \in 1..Cardinality(Referenced(d)) |->
                            d.conns[CHOOSE j \in Referenced(d) : Renumber(d, j) = k]],
              !.appOrig = Renumbered(d, @), !.appReply = Renumbered(d, @),
              !.netOrig = Renumbered(d, @), !.netReply = Renumbered(d, @),
              !.sourcePort = Renumbered(d, @)]

\* the flow between the PU of e and host r, and its two directions
AppFlow(e, r) == <<e, LocalPort, r, ServerPort>>
NetFlow(e, r) == <<r, ServerPort, e, LocalPort>>

\* the segments of the workload behind enforcer e: any flags on the flow to
\* any host; a SYN-ACK may also carry the mark of the global rule
AppPackets(e) ==
    { Packet(e, LocalPort, r, ServerPort, fl, PUMark, FALSE, NoData) :
        r \in Remotes(e), fl \in Flags }
      \cup { Packet(e, LocalPort, r, ServerPort, TCPSynAckMask, GlobalMark, FALSE, NoData) :
               r \in Remotes(e) }

\* the claim sets of the tokens a peer r sends: accepted, accepted and
\* rejected, matching no rule, without the transmitter label
GoodClaims(r) == {Tag(TransmitterLabel, r), Tag("app", "web")}
ClaimSets(r) ==
    { GoodClaims(r),
      GoodClaims(r) \cup {Tag("env", "bad")},
      {Tag(TransmitterLabel, r), Tag("app", "db")},
      {Tag("app", "web")} }
PeerNonces == {1, 2}
PeerTokens(r) ==
    { Token(FALSE, T, NoNonce, NoNonce, 1) : T \in ClaimSets(r) }
      \cup { Token(FALSE, GoodClaims(r), NoNonce, NoNonce, n) : n \in PeerNonces }
PeerAckTokens == { Token(TRUE, {}, l, r, NoNonce) : l \in PeerNonces, r \in Nonces }
Payloads(r, fl) ==
    {NoData, BadData} \cup (IF fl = TCPAckMask THEN PeerAckTokens ELSE PeerTokens(r))

\* the segments that reach enforcer e from the network: without the option
\* from any host, with the option and a payload from the protected peer
NetPackets(e) ==
    { Packet(r, ServerPort, e, LocalPort, fl, PUMark, FALSE, NoData) :
        r \in Remotes(e), fl \in Flags }
      \cup UNION { { Packet(Peer(e), ServerPort, e, LocalPort, fl, PUMark, TRUE, x) :
                       x \in Payloads(Peer(e), fl) } : fl \in Flags \ {NoSynAckFlags} }

\* a worker that is in no call
NoInput == [n0 |-> NoNonce, n1 |-> NoNonce, fault |-> "none", svc |-> FALSE]
Idle == [busy |-> FALSE, app |-> FALSE, cid |-> 0, in |-> NoInput, steps |-> << >>,
         p |-> Packet("", "", "", "", NoSynAckFlags, "", FALSE, NoData)]

\* nothing handled yet, no call made yet
NotStarted == [on |-> TRUE, n |-> 0]
NoCall == [verdict |-> "none", same |-> TRUE, marked |-> FALSE, bound |-> FALSE]

Init ==
    /\ \E mu \in BOOLEAN :
          dp = [e \in Enforcers |-> NewDatapath(e, LocalContainer, mu)]
    /\ wire = {}
    /\ hp = NotStarted
    /\ last = NoCall
    /\ job = [w \in Workers |-> Idle]
    /\ begun = 0
    /\ connLock = [i \in 1..MaxFlows |-> Unlocked]
    /\ ctxLock = Unlocked

\* the calls of the two entry points of enforcer e that the bounds admit
Call(p, in) == [p |-> p, in |-> in]
AppCalls(e) ==
    UNION { {Call(p, in) : in \in Inputs(AppFaults(p.flags))} :
              p \in {q \in AppPackets(e) : CanHandle(dp[e], dp[e].appOrig, TRUE, q)} }
NetCalls(e) ==
    UNION { {Call(p, in) : in \in Inputs(NetFaults)} :
              p \in {q \in NetPackets(e) : CanHandle(dp[e], dp[e].netOrig, FALSE, q)} }

\* enforcer e handles the application's packet p
ApplicationPacket(e, p, in) ==
    /\ CanHandle(dp[e], dp[e].appOrig, TRUE, p)
    /\ \E o \in {processApplicationTCPPackets(dp[e], p, in)} :
           dp' = [dp EXCEPT ![e] = Collect(ClearEffects(o.d))]
    /\ UNCHANGED <<flow, workers>>

\* enforcer e handles the network's packet p
NetworkPacket(e, p, in) ==
    /\ CanHandle(dp[e], dp[e].netOrig, FALSE, p)
    /\ \E o \in {processNetworkTCPPackets(dp[e], p, in)} :
           dp' = [dp EXCEPT ![e] = Collect(ClearEffects(o.d))]
    /\ UNCHANGED <<flow, workers>>

\* the cached SYN token of e's PU expires (500 ms have passed)
TokenExpires(e) ==
    /\ dp[e].ctx.synValid
    /\ dp' = [dp EXCEPT ![e].ctx.synValid = FALSE]
    /\ UNCHANGED <<flow, workers>>

\* Enforcer A under any traffic: its workload sends any segment, the
\* network delivers any segment.
Next ==
    \/ \E c \in AppCalls("A") : ApplicationPacket("A", c.p, c.in)
    \/ \E c \in NetCalls("A") : NetworkPacket("A", c.p, c.in)
    \/ TokenExpires("A")

Spec == Init /\ [][Next]_vars

\* ------------------------------------------------------- any mode, any SYN
\* Enforcer A in any of the three modes. Besides the traffic above, the
\* network delivers SYNs for an address that is not the PU's: a SYN that
\* resolves to no PUContext allocates nothing and is handled whatever the
\* number of connections.
Stranger == "Z"
StrayPackets(e) ==
    { Packet(Peer(e), ServerPort, Stranger, LocalPort, TCPSynMask, PUMark, FALSE, NoData) }
      \cup { Packet(Peer(e), ServerPort, Stranger, LocalPort, TCPSynMask, PUMark, TRUE, x) :
               x \in PeerTokens(Peer(e)) }
Unresolved(d, p) == ~contextFromIP(d, FALSE, p.dst, p.mark, p.dport)
StrayCalls(e) ==
    UNION { {Call(p, in) : in \in Inputs(NetFaults)} :
              p \in {q \in StrayPackets(e) :
                       Unresolved(dp[e], q) \/ CanHandle(dp[e], dp[e].netOrig, FALSE, q)} }

InitModes ==
    /\ \E m \in Modes :
          dp = [e \in Enforcers |-> NewDatapath(e, m, TRUE)]
    /\ wire = {}
    /\ hp = NotStarted
    /\ last = NoCall
    /\ job = [w \in Workers |-> Idle]
    /\ begun = 0
    /\ connLock = [i \in 1..MaxFlows |-> Unlocked]
    /\ ctxLock = Unlocked

\* enforcer e handles the packet p that the network delivers for any address
NetworkPacketAnywhere(e, p, in) ==
    /\ Unresolved(dp[e], p) \/ CanHandle(dp[e], dp[e].netOrig, FALSE, p)
    /\ \E o \in {processNetworkTCPPackets(dp[e], p, in)} :
           dp' = [dp EXCEPT ![e] = Collect(ClearEffects(o.d))]
    /\ UNCHANGED <<flow, workers>>

NextModes ==
    \/ \E c \in AppCalls("A") : ApplicationPacket("A", c.p, c.in)
    \/ \E c \in NetCalls("A") \cup StrayCalls("A") : NetworkPacketAnywhere("A", c.p, c.in)
    \/ TokenExpires("A")

SpecModes == InitModes /\ [][NextModes]_vars

\* ------------------------------------------------------- unprotected peers
\* The workload behind enforcer A opens flows to the unprotected host X from
\* two local ports, and X answers without the option: any segment of the
\* workload and of the host at any time, with as many connections as flows.
OtherPort == "1025"
LocalPorts == {LocalPort, OtherPort}
External == "X"
ExternalAppPackets(e) ==
    { Packet(e, lp, External, ServerPort, fl, PUMark, FALSE, NoData) :
        lp \in LocalPorts, fl \in {TCPSynMask, TCPAckMask, NoSynAckFlags} }
ExternalNetPackets(e) ==
    { Packet(External, ServerPort, e, lp, fl, PUMark, FALSE, NoData) :
        lp \in LocalPorts, fl \in {TCPSynAckMask, TCPAckMask, NoSynAckFlags} }
CanHandleFlow(d, cache, app, p) ==
    /\ Allocates(cache, p) => Len(d.conns) < MaxFlows
    /\ Cardinality(Free) >= Draws(cache, app, p)
\* the nonces the call will draw are drawn when it begins
WorkerInput(cache, app, p, f) ==
    [n0 |-> IF Allocates(cache, p) THEN Fresh(Free) ELSE NoNonce,
     n1 |-> IF app /\ p.flags \in {TCPSynMask, TCPSynAckMask}
            THEN Fresh(Free \ (IF Allocates(cache, p) THEN {Fresh(Free)} ELSE {}))
            ELSE NoNonce,
     fault |-> f, svc |-> FALSE]
ExternalFaults == {"none", "pre"}
ExternalAppCalls(e) ==
    UNION { {Call(p, WorkerInput(dp[e].appOrig, TRUE, p, f)) : f \in ExternalFaults} :
              p \in {q \in ExternalAppPackets(e) : CanHandleFlow(dp[e], dp[e].appOrig, TRUE, q)} }
ExternalNetCalls(e) ==
    UNION { {Call(p, WorkerInput(dp[e].netOrig, FALSE, p, f)) : f \in ExternalFaults} :
              p \in {q \in ExternalNetPackets(e) : CanHandleFlow(dp[e], dp[e].netOrig, FALSE, q)} }

\* enforcer e handles the packet p of one of several flows
ExternalApplicationPacket(e, p, in) ==
    /\ CanHandleFlow(dp[e], dp[e].appOrig, TRUE, p)
    /\ \E o \in {processApplicationTCPPackets(dp[e], p, in)} :
           dp' = [dp EXCEPT ![e] = Collect(ClearEffects(o.d))]
    /\ UNCHANGED <<flow, workers>>
ExternalNetworkPacket(e, p, in) ==
    /\ CanHandleFlow(dp[e], dp[e].netOrig, FALSE, p)
    /\ \E o \in {processNetworkTCPPackets(dp[e], p, in)} :
           dp' = [dp EXCEPT ![e] = Collect(ClearEffects(o.d))]
    /\ UNCHANGED <<flow, workers>>

NextExternal ==
    \/ \E c \in ExternalAppCalls("A") : ExternalApplicationPacket("A", c.p, c.in)
    \/ \E c \in ExternalNetCalls("A") : ExternalNetworkPacket("A", c.p, c.in)
    \/ TokenExpires("A")

SpecExternal == Init /\ [][NextExternal]_vars

\* ------------------------------------------------- a PU that serves and calls
\* The PU behind enforcer A opens the flow A:LocalPort -> B:ServerPort and
\* serves the flow B:LocalPort -> A:ServerPort that the PU behind B opens:
\* the SYN and the ACK of the first, the SYN of the peer and the SYN-ACK that
\* answers it, in any order and any number of times.
ServedAppPackets(e) ==
    { Packet(e, LocalPort, Peer(e), ServerPort, fl, PUMark, FALSE, NoData) :
        fl \in {TCPSynMask, TCPAckMask} }
      \cup { Packet(e, ServerPort, Peer(e), LocalPort, TCPSynAckMask, PUMark, FALSE, NoData) }
ServedNetPackets(e) ==
    { Packet(Peer(e), LocalPort, e, ServerPort, TCPSynMask, PUMark, TRUE,
             Token(FALSE, GoodClaims(Peer(e)), NoNonce, NoNonce, n)) : n \in PeerNonces }
ServedFaults == {"none", "rand"}
ServedAppCalls(e) ==
    UNION { {Call(p, WorkerInput(dp[e].appOrig, TRUE, p, f)) : f \in ServedFaults} :
              p \in {q \in ServedAppPackets(e) : CanHandleFlow(dp[e], dp[e].appOrig, TRUE, q)} }
ServedNetCalls(e) ==
    UNION { {Call(p, WorkerInput(dp[e].netOrig, FALSE, p, "none"))} :
              p \in {q \in ServedNetPackets(e) : CanHandleFlow(dp[e], dp[e].netOrig, FALSE, q)} }

NextServed ==
    \/ \E c \in ServedAppCalls("A") : ExternalApplicationPacket("A", c.p, c.in)
    \/ \E c \in ServedNetCalls("A") : ExternalNetworkPacket("A", c.p, c.in)
    \/ TokenExpires("A")

SpecServed == Init /\ [][NextServed]_vars

\* ------------------------------------------------------ two enforcers, a flow
\* The workload behind A opens the flow A:LocalPort -> B:ServerPort, the
\* workload behind B answers.  Each segment goes through the application
\* entry point of its enforcer; a passed segment is on the network, from
\* where it reaches the network entry point of the other enforcer, once,
\* several times or never, until the same host sends a segment of the same
\* kind again.
FlowPackets(e) ==
    IF e = "A"
    THEN { Packet("A", LocalPort, "B", ServerPort, fl, PUMark, FALSE, NoData) :
             fl \in {TCPSynMask, TCPAckMask} }
    ELSE { Packet("B", ServerPort, "A", LocalPort, fl, PUMark, FALSE, NoData) :
             fl \in {TCPSynAckMask, TCPAckMask} }
FlowInputs == {Input("none", FALSE)}

\* The handshake of the flow, call by call: entry point and flags.
Handshake ==
    << <<"A", "app", TCPSynMask>>,    <<"B", "net", TCPSynMask>>,
       <<"B", "app", TCPSynAckMask>>, <<"A", "net", TCPSynAckMask>>,
       <<"A", "app", TCPAckMask>>,    <<"B", "net", TCPAckMask>> >>
Established == [on |-> TRUE, n |-> Len(Handshake)]
Continued == [on |-> TRUE, n |-> Len(Handshake) + 1]
Settled == [on |-> TRUE, n |-> Len(Handshake) + 2]
\* not observed any more: n counts the calls made since
Unobserved(h) == [on |-> FALSE, n |-> IF h.on THEN 1 ELSE h.n + 1]

\* hp after the call <<e, side, flags>>: the next call of the handshake
\* advances it; once the handshake is done (Established) only ACK-only
\* segments follow (Continued), and the first of them that A's workload
\* sends settles the initiator (Settled); any other call, and any call in
\* which a hook fails, ends the observation, and at most MaxOff calls are
\* made on the flow after that.
Follow(h, e, side, p, in) ==
    IF ~h.on \/ in.fault # "none" \/ in.svc THEN Unobserved(h)
    ELSE IF h.n < Len(Handshake)
    THEN IF Handshake[h.n + 1] = <<e, side, p.flags>>
         THEN [on |-> TRUE, n |-> h.n + 1]
         ELSE Unobserved(h)
    ELSE IF p.flags # TCPAckMask THEN Unobserved(h)
    ELSE IF <<e, side>> = <<"A", "app">> \/ h = Settled THEN Settled
    ELSE Continued

\* what is kept of a call while it is observed
Observed(h, e, cid, p, o) ==
    IF ~h.on THEN NoCall
    ELSE [verdict |-> o.verdict, same |-> o.p = p, marked |-> o.d.marks # << >>,
          bound |-> /\ p.flags = TCPAckMask /\ p.opt /\ o.cid # 0
                    /\ o.cid <= Len(dp[e].conns)
                    /\ ~parseAckToken(dp[e].conns[o.cid].Auth, ReadTCPData(p))]

\* the network after q has been passed on to it
Replaces(q, p) == <<q.src, q.flags, q.opt>> = <<p.src, p.flags, p.opt>>
Transmit(w, q) == {p \in w : ~Replaces(q, p)} \cup {q}

\* the workload behind e sends p
Send(e, p, in) ==
    /\ hp.on \/ hp.n < MaxOff
    /\ CanHandle(dp[e], dp[e].appOrig, TRUE, p)
    /\ \E o \in {processApplicationTCPPackets(dp[e], p, in)} :
          /\ dp' = [dp EXCEPT ![e] = Collect(ClearEffects(o.d))]
          /\ wire' = IF o.verdict = "accept" THEN Transmit(wire, o.p) ELSE wire
          /\ hp' = Follow(hp, e, "app", p, in)
          /\ last' = Observed(hp', e, o.cid, p, o)
    /\ UNCHANGED workers

\* the network delivers p to e
Deliver(e, p, in) ==
    /\ hp.on \/ hp.n < MaxOff
    /\ p \in wire /\ p.dst = e
    /\ CanHandle(dp[e], dp[e].netOrig, FALSE, p)
    /\ \E o \in {processNetworkTCPPackets(dp[e], p, in)} :
          /\ dp' = [dp EXCEPT ![e] = Collect(ClearEffects(o.d))]
          /\ hp' = Follow(hp, e, "net", p, in)
          /\ last' = Observed(hp', e, o.cid, p, o)
    /\ UNCHANGED <<wire, workers>>

NextPair ==
    \/ \E e \in Enforcers : \E p \in FlowPackets(e) : \E in \in FlowInputs : Send(e, p, in)
    \/ \E e \in Enforcers : \E p \in wire : \E in \in FlowInputs : Deliver(e, p, in)

SpecPair == Init /\ [][NextPair]_vars

\* ------------------------------------------------------- a lost handshake ACK
\* The flow of the two enforcers up to the ACK of the handshake, which the
\* network loses; from then on TCP retransmits: the workload behind B its
\* SYN-ACK, the workload behind A ACK segments, and the network delivers
\* every segment sent after the loss, once.
AckSent == [on |-> TRUE, n |-> Len(Handshake) - 1]
\* hp once the ACK is lost: no call count reaches it
Lost == [on |-> FALSE, n |-> MaxOff + 1]

\* the network loses the ACK that carries the token of A; the segments
\* sent before it have been delivered
LoseAck ==
    /\ hp = AckSent
    /\ \E p \in wire : p.src = "A" /\ p.flags = TCPAckMask /\ p.opt
    /\ wire' = {}
    /\ hp' = Lost
    /\ UNCHANGED <<dp, last, workers>>

\* the segments TCP sends after the loss
Retransmitted(e) ==
    IF e = "A" THEN Packet("A", LocalPort, "B", ServerPort, TCPAckMask, PUMark, FALSE, NoData)
    ELSE Packet("B", ServerPort, "A", LocalPort, TCPSynAckMask, PUMark, FALSE, NoData)

\* TCP behind e sends its segment again
Retransmit(e) ==
    LET p == Retransmitted(e)
    IN  /\ hp = Lost
        /\ CanHandle(dp[e], dp[e].appOrig, TRUE, p)
        /\ \E o \in {processApplicationTCPPackets(dp[e], p,
                         WorkerInput(dp[e].appOrig, TRUE, p, "none"))} :
              /\ dp' = [dp EXCEPT ![e] = Collect(ClearEffects(o.d))]
              /\ wire' = IF o.verdict = "accept" THEN Transmit(wire, o.p) ELSE wire
        /\ UNCHANGED <<hp, last, workers>>

\* the network delivers to e a segment sent after the loss
DeliverLater(e) ==
    /\ hp = Lost
    /\ \E p \in wire :
          /\ p.dst = e
          /\ \E o \in {processNetworkTCPPackets(dp[e], p,
                           WorkerInput(dp[e].netOrig, FALSE, p, "none"))} :
                dp' = [dp EXCEPT ![e] = Collect(ClearEffects(o.d))]
          /\ wire' = wire \ {p}
    /\ UNCHANGED <<hp, last, workers>>

NextRecovery ==
    \/ \E e \in Enforcers : \E p \in FlowPackets(e) : \E in \in FlowInputs : Send(e, p, in)
    \/ \E e \in Enforcers : \E p \in wire : \E in \in FlowInputs : Deliver(e, p, in)
    \/ LoseAck
    \/ \E e \in Enforcers : Retransmit(e)
    \/ \E e \in Enforcers : DeliverLater(e)

\* TCP keeps retransmitting and the network keeps delivering
SpecRecovery ==
    /\ Init /\ [][NextRecovery]_vars
    /\ \A e \in Enforcers : WF_vars(Retransmit(e)) /\ WF_vars(DeliverLater(e))

\* -------------------------------------------------- one enforcer, two workers
\* The steps of a call, in the order of the code, as far as the locks see
\* them.  "conn.Touch": the lock of the connection taken and released (the
\* resolvers, updateTimer); "conn.Lock", "conn.Unlock": the lock the entry
\* point takes after resolution and its deferred release; "context.Lock",
\* "context.Unlock": the lock of the PUContext; "dispatch": the pre hook and
\* the switch on the flags; "lookup": the external IP cache read of
\* processApplicationSynPacket; "handle", "handle.external", "handle.token":
\* the work of the handler.
appSynRetrieveStateSteps == <<"conn.Touch">>
appRetrieveStateSteps == <<"conn.Touch", "conn.Touch">>
netSynRetrieveStateSteps == <<"conn.Touch">>
netSynAckRetrieveStateSteps == <<"conn.Touch">>
netRetrieveStateSteps == <<"conn.Touch", "conn.Touch">>

\* processNetworkTCPPackets without the lock of the connection
processNetworkTCPPacketsUnlocked(fl) ==
    (IF fl = TCPSynMask THEN netSynRetrieveStateSteps
     ELSE IF fl = TCPSynAckMask THEN netSynAckRetrieveStateSteps
     ELSE netRetrieveStateSteps) \o <<"dispatch">>

processNetworkTCPPacketsSteps(fl) ==
    (IF fl = TCPSynMask THEN netSynRetrieveStateSteps
     ELSE IF fl = TCPSynAckMask THEN netSynAckRetrieveStateSteps
     ELSE netRetrieveStateSteps) \o <<"conn.Lock", "dispatch", "conn.Unlock">>

processApplicationTCPPacketsSteps(fl) ==
    (IF fl = TCPSynMask THEN appSynRetrieveStateSteps ELSE appRetrieveStateSteps)
      \o <<"conn.Lock", "dispatch", "conn.Unlock">>

processApplicationSynPacketSteps == <<"context.Lock", "lookup">>

\* processApplicationSynPacket returning on a cache hit with the PUContext
\* still locked
processApplicationSynPacketNoUnlock(hit) ==
    IF hit THEN <<"handle.external">>
    ELSE <<"context.Unlock", "context.Lock", "handle.token", "context.Unlock">>

\* processApplicationSynPacket after the cache read
processApplicationSynPacketBranch(hit) ==
    IF hit THEN <<"context.Unlock", "handle.external">>
    ELSE <<"context.Unlock", "context.Lock", "handle.token", "context.Unlock">>

processApplicationSynAckPacketSteps(conn) ==
    IF conn.State = "Data" /\ ~conn.ServiceConnection THEN <<"handle">>
    ELSE IF conn.State \in {"SynReceived", "SynAckSend"}
    THEN <<"context.Lock", "handle", "context.Unlock">>
    ELSE <<"handle">>

processApplicationAckPacketSteps(conn) ==
    IF conn.State = "Data" THEN <<"handle">>
    ELSE IF conn.State \in {"SynAckReceived", "SynSend"}
    THEN <<"context.Lock", "handle", "context.Unlock">>
    ELSE <<"handle">>

processNetworkSynPacketSteps == <<"context.Lock", "handle", "context.Unlock">>
processNetworkSynAckPacketSteps == <<"context.Lock", "handle", "context.Unlock">>
processNetworkAckPacketSteps(conn) ==
    IF conn.State \in {"Data", "AckSend"} THEN <<"handle">>
    ELSE <<"context.Lock", "handle", "context.Unlock">>

processApplicationTCPPacketSteps(p, conn) ==
    IF p.flags = TCPSynMask THEN processApplicationSynPacketSteps
    ELSE IF p.flags = TCPAckMask THEN processApplicationAckPacketSteps(conn)
    ELSE IF p.flags = TCPSynAckMask THEN processApplicationSynAckPacketSteps(conn)
    ELSE <<"handle">>

processNetworkTCPPacketSteps(p, conn) ==
    IF p.flags = TCPSynMask THEN processNetworkSynPacketSteps
    ELSE IF p.flags = TCPAckMask THEN processNetworkAckPacketSteps(conn)
    ELSE IF p.flags = TCPSynAckMask THEN processNetworkSynAckPacketSteps
    ELSE <<"handle">>

\* the traffic of the enforcer: the workload's segments to the peer and its
\* SYN to an external host, the peer's segments with a token, the external
\* host's SYN-ACK
WorkerPackets(app) ==
    IF app
    THEN { Packet("A", LocalPort, "B", ServerPort, fl, PUMark, FALSE, NoData) :
             fl \in {TCPSynMask, TCPAckMask, TCPSynAckMask} }
           \cup { Packet("A", LocalPort, "X", ServerPort, TCPSynMask, PUMark, FALSE, NoData) }
    ELSE { Packet("B", ServerPort, "A", LocalPort, TCPSynMask, PUMark, TRUE,
                  Token(FALSE, GoodClaims("B"), NoNonce, NoNonce, 1)),
           Packet("B", ServerPort, "A", LocalPort, TCPSynAckMask, PUMark, TRUE,
                  Token(FALSE, GoodClaims("B"), NoNonce, NoNonce, 1)),
           Packet("B", ServerPort, "A", LocalPort, TCPAckMask, PUMark, TRUE,
                  Token(TRUE, {}, 1, 2, NoNonce)),
           Packet("X", ServerPort, "A", LocalPort, TCPSynAckMask, PUMark, FALSE, NoData) }
WorkerFaults == {"none", "pre"}

Op(w) == IF job[w].steps = << >> THEN "" ELSE Head(job[w].steps)
\* worker w goes on with the steps s; with none left the call has returned
Continue(w, s) == IF s = << >> THEN Idle ELSE [job[w] EXCEPT !.steps = s]
\* connections are freed while no call is using one
Sweep(d, j) == IF \A w \in Workers : ~j[w].busy THEN Collect(d) ELSE d

\* worker w takes packet p and resolves it
Begin(w, app, p, f) ==
    LET d == dp["A"]
        cache == IF app THEN d.appOrig ELSE d.netOrig
        in == WorkerInput(cache, app, p, f)
        r == IF app
             THEN IF p.flags = TCPSynMask THEN appSynRetrieveState(d, p, in)
                  ELSE appRetrieveState(d, p)
             ELSE IF p.flags = TCPSynMask THEN netSynRetrieveState(d, p, in)
                  ELSE IF p.flags = TCPSynAckMask THEN netSynAckRetrieveState(d, p)
                  ELSE netRetrieveState(d, p)
    IN  /\ ~job[w].busy
        /\ begun < MaxCalls
        /\ begun' = begun + 1
        /\ Allocates(cache, p) => Len(d.conns) < MaxFlows
        /\ Cardinality(Free) >= Draws(cache, app, p)
        /\ dp' = [dp EXCEPT !["A"] = r.d]
        /\ job' = [job EXCEPT ![w] =
                     IF r.err \/ r.transient THEN Idle
                     ELSE [busy |-> TRUE, app |-> app, cid |-> r.cid, in |-> in, p |-> p,
                           steps |-> IF app THEN processApplicationTCPPacketsSteps(p.flags)
                                     ELSE processNetworkTCPPacketsSteps(p.flags)]]
        /\ UNCHANGED <<flow, connLock, ctxLock>>

\* a resolver or updateTimer locks the connection, looks, and unlocks it
ConnTouch(w) ==
    /\ Op(w) = "conn.Touch"
    /\ connLock[job[w].cid] = Unlocked
    /\ job' = [job EXCEPT ![w] = Continue(w, Tail(job[w].steps))]
    /\ UNCHANGED <<dp, flow, begun, connLock, ctxLock>>

\* conn.Lock() of the entry point
ConnLock(w) ==
    /\ Op(w) = "conn.Lock"
    /\ connLock[job[w].cid] = Unlocked
    /\ connLock' = [connLock EXCEPT ![job[w].cid] = w]
    /\ job' = [job EXCEPT ![w] = Continue(w, Tail(job[w].steps))]
    /\ UNCHANGED <<dp, flow, begun, ctxLock>>

\* the pre hook, then the handler the flags and the state select
Dispatch(w) ==
    /\ Op(w) = "dispatch"
    /\ job' = [job EXCEPT ![w] = Continue(w,
                 (IF job[w].in.fault = "pre" THEN << >>
                  ELSE IF job[w].app
                  THEN processApplicationTCPPacketSteps(job[w].p, dp["A"].conns[job[w].cid])
                  ELSE processNetworkTCPPacketSteps(job[w].p, dp["A"].conns[job[w].cid]))
                 \o Tail(job[w].steps))]
    /\ dp' = [dp EXCEPT !["A"] = Sweep(@, job')]
    /\ UNCHANGED <<flow, begun, connLock, ctxLock>>

\* context.Lock()
ContextLock(w) ==
    /\ Op(w) = "context.Lock"
    /\ ctxLock = Unlocked
    /\ ctxLock' = w
    /\ job' = [job EXCEPT ![w] = Continue(w, Tail(job[w].steps))]
    /\ UNCHANGED <<dp, flow, begun, connLock>>

\* the external IP cache read of processApplicationSynPacket
Lookup(w) ==
    /\ Op(w) = "lookup"
    /\ job' = [job EXCEPT ![w] = Continue(w,
                 processApplicationSynPacketBranch(
                     Has(dp["A"].ctx.externalIPCache, <<job[w].p.dst, job[w].p.dport>>))
                 \o Tail(job[w].steps))]
    /\ UNCHANGED <<dp, flow, begun, connLock, ctxLock>>

\* context.Unlock()
ContextUnlock(w) ==
    /\ Op(w) = "context.Unlock"
    /\ ctxLock' = Unlocked
    /\ job' = [job EXCEPT ![w] = Continue(w, Tail(job[w].steps))]
    /\ UNCHANGED <<dp, flow, begun, connLock>>

\* the handler works on the connection and the caches
Handle(w) ==
    /\ Op(w) \in {"handle", "handle.external", "handle.token"}
    /\ job' = [job EXCEPT ![w] = Continue(w, Tail(job[w].steps))]
    /\ \E h \in { IF Op(w) = "handle.external"
                   THEN processApplicationSynPacketExternal(dp["A"], job[w].p, job[w].cid)
                   ELSE IF Op(w) = "handle.token"
                   THEN processApplicationSynPacketToken(dp["A"], job[w].p, job[w].cid, job[w].in)
                   ELSE IF job[w].app
                   THEN processApplicationTCPPacket(dp["A"], job[w].p, job[w].cid, job[w].in)
                   ELSE processNetworkTCPPacket(dp["A"], job[w].p, job[w].cid) } :
          dp' = [dp EXCEPT !["A"] = Sweep(ClearEffects(h.d), job')]
    /\ UNCHANGED <<flow, begun, connLock, ctxLock>>

\* the entry point returns: the deferred conn.Unlock()
ConnUnlock(w) ==
    /\ Op(w) = "conn.Unlock"
    /\ connLock' = [connLock EXCEPT ![job[w].cid] = Unlocked]
    /\ job' = [job EXCEPT ![w] = Continue(w, Tail(job[w].steps))]
    /\ dp' = [dp EXCEPT !["A"] = Sweep(@, job')]
    /\ UNCHANGED <<flow, begun, ctxLock>>

NextWorkers ==
    \/ \E w \in Workers : \E app \in BOOLEAN : \E p \in WorkerPackets(app) :
          \E f \in WorkerFaults : Begin(w, app, p, f)
    \/ \E w \in Workers : ConnTouch(w)
    \/ \E w \in Workers : ConnLock(w)
    \/ \E w \in Workers : Dispatch(w)
    \/ \E w \in Workers : ContextLock(w)
    \/ \E w \in Workers : Lookup(w)
    \/ \E w \in Workers : ContextUnlock(w)
    \/ \E w \in Workers : Handle(w)
    \/ \E w \in Workers : ConnUnlock(w)

SpecWorkers == Init /\ [][NextWorkers]_vars

\* ------------------------------------------- two workers, the cached token
\* Two workers handle the SYNs the workload sends to the protected peer from
\* two local ports.  createSynPacketToken returns context.synToken, the
\* buffer the PUContext caches: the worker holds that buffer from
\* "token.create", under the lock of the PUContext, to "token.attach", after
\* the lock is released, where TCPDataAttach reads it.  Randomize rewrites
\* the nonce inside the buffer; CreateAndSign puts a new buffer in the
\* PUContext and leaves the old one to the workers that hold it.
TokenPackets ==
    { Packet("A", lp, "B", ServerPort, TCPSynMask, PUMark, FALSE, NoData) : lp \in LocalPorts }
TokenFaults == {"none", "rand"}

\* processApplicationSynPacket after the cache read, token creation and the
\* rest of the handler apart
processApplicationSynPacketSplit(hit) ==
    IF hit THEN <<"context.Unlock", "handle.external">>
    ELSE <<"context.Unlock", "context.Lock", "token.create", "context.Unlock",
           "track.flow", "track.port", "token.attach">>

\* the nonces in use: those of the connections, of the cached token, of the
\* calls, and of the token bytes the workers hold or have attached
HeldNonces ==
    {job[w].p.data.nonce : w \in Workers}
      \cup {job[w].tok.nonce : w \in {v \in Workers : "tok" \in DOMAIN job[v]}}
FreeNow == Nonces \ (LocalNonces(dp["A"]) \cup HeldNonces)

\* worker w takes SYN p of the workload and resolves it; initAuthInfo draws
\* the nonce of a new connection, the token engine draws its own later
BeginSyn(w, p, f) ==
    LET d == dp["A"]
        in == [n0 |-> IF Allocates(d.appOrig, p) THEN Fresh(FreeNow) ELSE NoNonce,
               n1 |-> NoNonce, fault |-> f, svc |-> FALSE]
        r == appSynRetrieveState(d, p, in)
    IN  /\ ~job[w].busy
        /\ begun < MaxCalls
        /\ begun' = begun + 1
        /\ Allocates(d.appOrig, p) => (Len(d.conns) < MaxFlows /\ FreeNow # {})
        /\ dp' = [dp EXCEPT !["A"] = r.d]
        /\ job' = [job EXCEPT ![w] =
                     IF r.err \/ r.transient THEN Idle
                     ELSE [busy |-> TRUE, app |-> TRUE, cid |-> r.cid, in |-> in, p |-> p,
                           steps |-> processApplicationTCPPacketsSteps(p.flags)]]
        /\ UNCHANGED <<flow, connLock, ctxLock>>

LookupSplit(w) ==
    /\ Op(w) = "lookup"
    /\ job' = [job EXCEPT ![w] = Continue(w,
                 processApplicationSynPacketSplit(
                     Has(dp["A"].ctx.externalIPCache, <<job[w].p.dst, job[w].p.dport>>))
                 \o Tail(job[w].steps))]
    /\ UNCHANGED <<dp, flow, begun, connLock, ctxLock>>

\* worker w holds the buffer that the PUContext caches
HoldsCached(j) == j.busy /\ "shared" \in DOMAIN j /\ j.shared
\* createSynPacketToken takes the cached token and randomizes it
Reuses(ctx, in) ==
    /\ ctx.synValid /\ ctx.synToken.kind # "none"
    /\ ~Randomize(ctx.synToken, in.n1, in.fault # "rand").err

\* createSynPacketToken under the lock of the PUContext
CreateToken(w) ==
    LET d == dp["A"]
        cid == job[w].cid
        in == [job[w].in EXCEPT !.n1 = Fresh(FreeNow)]
        tk == createSynPacketToken(d.ctx, d.conns[cid].Auth, in)
        mine == [busy |-> TRUE, app |-> TRUE, cid |-> cid, in |-> in,
                 p |-> job[w].p, steps |-> Tail(job[w].steps),
                 tok |-> tk.token, shared |-> tk.token # NoData, attached |-> FALSE]
        other(j) == IF ~HoldsCached(j) THEN j
                    ELSE IF Reuses(d.ctx, in) THEN [j EXCEPT !.tok = tk.token]
                    ELSE [j EXCEPT !.shared = FALSE]
    IN  /\ Op(w) = "token.create"
        /\ FreeNow # {}
        /\ dp' = [dp EXCEPT !["A"].ctx = tk.ctx, !["A"].conns[cid].Auth = tk.auth]
        /\ job' = [v \in Workers |-> IF v = w THEN mine ELSE other(job[v])]
        /\ UNCHANGED <<flow, begun, connLock, ctxLock>>

\* processApplicationSynPacket after the token: the state, and the
\* connection under the hash of the flow in appOrigConnectionTracker
TrackFlow(w) ==
    LET cid == job[w].cid
        d1 == SetState(dp["A"], cid, "SynSend")
    IN  /\ Op(w) = "track.flow"
        /\ dp' = [dp EXCEPT !["A"] =
                     [d1 EXCEPT !.appOrig = AddOrUpdate(@, L4FlowHash(job[w].p), cid)]]
        /\ job' = [job EXCEPT ![w] = Continue(w, Tail(job[w].steps))]
        /\ UNCHANGED <<flow, begun, connLock, ctxLock>>

\* the connection under the hash of the source port in sourcePortConnectionCache
TrackPort(w) ==
    LET cid == job[w].cid
    IN  /\ Op(w) = "track.port"
        /\ dp' = [dp EXCEPT !["A"].sourcePort =
                     AddOrUpdate(@, SourcePortHash(job[w].p, PacketTypeApplication), cid)]
        /\ job' = [job EXCEPT ![w] = Continue(w, Tail(job[w].steps))]
        /\ UNCHANGED <<flow, begun, connLock, ctxLock>>

\* TCPDataAttach with the bytes that are in the buffer now
AttachToken(w) ==
    /\ Op(w) = "token.attach"
    /\ job' = [job EXCEPT ![w] = [@ EXCEPT !.p = TCPDataAttach(job[w].p, job[w].tok),
                                           !.attached = TRUE, !.shared = FALSE,
                                           !.steps = Tail(@)]]
    /\ UNCHANGED <<dp, flow, begun, connLock, ctxLock>>

NextTokens ==
    \/ \E w \in Workers : \E p \in TokenPackets : \E f \in TokenFaults : BeginSyn(w, p, f)
    \/ \E w \in Workers : ConnTouch(w)
    \/ \E w \in Workers : ConnLock(w)
    \/ \E w \in Workers : Dispatch(w)
    \/ \E w \in Workers : ContextLock(w)
    \/ \E w \in Workers : LookupSplit(w)
    \/ \E w \in Workers : ContextUnlock(w)
    \/ \E w \in Workers : CreateToken(w)
    \/ \E w \in Workers : TrackFlow(w)
    \/ \E w \in Workers : TrackPort(w)
    \/ \E w \in Workers : AttachToken(w)
    \/ \E w \in Workers : ConnUnlock(w)
    \/ TokenExpires("A")

SpecTokens == Init /\ [][NextTokens]_vars

\* ------------------------------------------------------------------ claims
\* The claims about one packet are stated over every call the entry points
\* admit in a reachable state: the datapath before the call is dp[e], the
\* datapath, packet and verdict after it are the entry point's result.
AppOut(e, c) == processApplicationTCPPackets(dp[e], c.p, c.in)
NetOut(e, c) == processNetworkTCPPackets(dp[e], c.p, c.in)
\* the packet resolved to a connection that was there before the call
Existing(e, o) == o.cid # 0 /\ o.cid <= Len(dp[e].conns)
Before(e, o) == dp[e].conns[o.cid]
After(o) == o.d.conns[o.cid]
SameCaches(d1, d2) ==
    /\ d1.appOrig = d2.appOrig /\ d1.appReply = d2.appReply
    /\ d1.netOrig = d2.netOrig /\ d1.netReply = d2.netReply
    /\ d1.sourcePort = d2.sourcePort
\* the reasons of the rejected-flow reports of the call, in order
IsRejection(r) == r.kind = "rejected"
Rejections(d) ==
    LET s == SelectSeq(d.reports, IsRejection)
    IN  [i \in 1..Len(s) |-> s[i].reason]

\* C5 (as stated): no packet handled for an existing connection rewrites its
\* local_context.
C5_LocalContextNeverRewritten ==
    \A e \in Enforcers :
      /\ \A c \in AppCalls(e) : \A o \in {AppOut(e, c)} :
            Existing(e, o) => After(o).Auth.LocalContext = Before(e, o).Auth.LocalContext
      /\ \A c \in NetCalls(e) : \A o \in {NetOut(e, c)} :
            Existing(e, o) => After(o).Auth.LocalContext = Before(e, o).Auth.LocalContext

\* C5 (amended): local_context is set when the connection is created and is
\* rewritten only by the token creation of an app-SYN and of an app-SYN-ACK,
\* which store the nonce of the token they attach; an app-ACK, a packet with
\* other flags and every network packet leave it as it was.
C5_LocalContextFollowsToken ==
    \A e \in Enforcers :
      /\ \A c \in AppCalls(e) : \A o \in {AppOut(e, c)} :
            o.cid # 0 =>
              IF c.p.flags \in {TCPSynMask, TCPSynAckMask} /\ o.p.opt
              THEN After(o).Auth.LocalContext = o.p.data.nonce
              ELSE IF Existing(e, o)
              THEN After(o).Auth.LocalContext = Before(e, o).Auth.LocalContext
              ELSE After(o).Auth.LocalContext = c.in.n0
      /\ \A c \in NetCalls(e) : \A o \in {NetOut(e, c)} :
            o.cid # 0 =>
              IF Existing(e, o)
              THEN After(o).Auth.LocalContext = Before(e, o).Auth.LocalContext
              ELSE After(o).Auth.LocalContext = c.in.n0 /\ c.in.n0 \in Nonces

\* C5 witness: a retransmitted app-SYN on the cached connection is accepted
\* and leaves the connection with another local_context than it had.
C5_Witness ==
    \E c \in AppCalls("A") : \E o \in {AppOut("A", c)} :
        /\ c.p.flags = TCPSynMask /\ Existing("A", o) /\ o.verdict = "accept"
        /\ Before("A", o).Auth.LocalContext \in Nonces
        /\ After(o).Auth.LocalContext \in Nonces \ {Before("A", o).Auth.LocalContext}
        /\ o.p.data.nonce = After(o).Auth.LocalContext

\* the token of a net-SYN or net-SYN-ACK is valid for the connection
ValidToken(e, c, o) ==
    /\ c.p.opt /\ ReadTCPData(c.p).kind # "none"
    /\ ~parsePacketToken(Before(e, o).Auth, ReadTCPData(c.p)).err
Claims(c) == Decode(FALSE, ReadTCPData(c.p)).T
RcvClaims(c) == Claims(c) \cup {Tag(PortNumberLabelString, c.p.dport)}

\* C6 (as stated): remote_context is written once, when the peer's first
\* token is accepted: a network packet that policy drops does not write it,
\* and once it is set no later SYN or SYN-ACK overwrites it.
C6_RemoteContextWrittenOnce ==
    \A e \in Enforcers : \A c \in NetCalls(e) : \A o \in {NetOut(e, c)} :
        (Existing(e, o) /\ c.in.fault = "none" /\ ~c.in.svc) =>
          /\ Rejections(o.d) = <<"PolicyDrop">> =>
                After(o).Auth.RemoteContext = Before(e, o).Auth.RemoteContext
          /\ Before(e, o).Auth.RemoteContext # NoNonce =>
                After(o).Auth.RemoteContext = Before(e, o).Auth.RemoteContext

\* C7 (as stated): once a connection is in Data no packet of either entry
\* point changes its state, and every packet handled for it is passed
\* unmodified.
C7_DataIsTerminal ==
    \A e \in Enforcers :
      /\ \A c \in AppCalls(e) : \A o \in {AppOut(e, c)} :
            (/\ Existing(e, o) /\ Before(e, o).State = "Data"
             /\ c.in.fault = "none" /\ ~After(o).ServiceConnection) =>
                After(o).State = "Data" /\ o.verdict = "accept" /\ o.p = c.p
      /\ \A c \in NetCalls(e) : \A o \in {NetOut(e, c)} :
            (/\ Existing(e, o) /\ Before(e, o).State = "Data"
             /\ c.in.fault = "none" /\ ~After(o).ServiceConnection) =>
                After(o).State = "Data" /\ o.verdict = "accept" /\ o.p = c.p

\* C7 (amended): a connection in Data leaves Data only when a handshake is
\* started again on it: by an app-SYN to a destination that is not in the
\* external IP cache (SynSend), by a net-SYN with an accepted token
\* (SynReceived), or by a net-SYN-ACK with an accepted token
\* (SynAckReceived).  An ACK-only segment, a segment with other flags and an
\* app-SYN-ACK leave it in Data; with no failing hook the first two are
\* passed unmodified, and so is the app-SYN-ACK unless the connection is a
\* service connection.
C7_DataLeftOnlyByNewHandshake ==
    \A e \in Enforcers :
      /\ \A c \in AppCalls(e) : \A o \in {AppOut(e, c)} :
            (Existing(e, o) /\ Before(e, o).State = "Data") =>
              /\ After(o).State # "Data" =>
                    /\ c.p.flags = TCPSynMask
                    /\ ~Has(dp[e].ctx.externalIPCache, <<c.p.dst, c.p.dport>>)
                    /\ After(o).State = "SynSend"
              /\ (/\ c.in.fault = "none"
                  /\ \/ c.p.flags \in {TCPAckMask, NoSynAckFlags}
                     \/ c.p.flags = TCPSynAckMask /\ ~After(o).ServiceConnection) =>
                    o.verdict = "accept" /\ o.p = c.p
      /\ \A c \in NetCalls(e) : \A o \in {NetOut(e, c)} :
            (Existing(e, o) /\ Before(e, o).State = "Data") =>
              /\ After(o).State # "Data" =>
                    /\ c.p.flags \in {TCPSynMask, TCPSynAckMask}
                    /\ ValidToken(e, c, o)
                    /\ After(o).State =
                          IF c.p.flags = TCPSynMask THEN "SynReceived" ELSE "SynAckReceived"
              /\ (c.p.flags \in {TCPAckMask, NoSynAckFlags} /\ c.in.fault = "none") =>
                    o.verdict = "accept" /\ o.p = c.p

\* C7 witness: an ACK-only segment from the network, carrying a token,
\* resolves to a connection in Data and is passed as it came.
C7_Witness ==
    \E c \in NetCalls("A") : \E o \in {NetOut("A", c)} :
        /\ Existing("A", o) /\ Before("A", o).State = "Data"
        /\ c.p.flags = TCPAckMask /\ c.p.opt /\ c.in.fault = "none"
        /\ o.handled /\ o.verdict = "accept" /\ o.p = c.p /\ After(o).State = "Data"

\* C8: a net-SYN with the option and a valid token whose claims, with the
\* @port label, match a RejectRcv rule is dropped and reported once as
\* PolicyDrop, whether or not an AcceptRcv rule matches too; no cache changes
\* and the state of the connection stays what it was.
C8_RejectDominatesAccept ==
    \A e \in Enforcers : \A c \in NetCalls(e) : \A o \in {NetOut(e, c)} :
        (/\ c.p.flags = TCPSynMask /\ o.handled
         /\ CheckTCPAuthenticationOption(c.p)
         /\ ~parsePacketToken(NewTCPConnection(c.in.n0).Auth, ReadTCPData(c.p)).err
         /\ Search(RejectRcvRules, RcvClaims(c)).index >= 0) =>
            /\ o.verdict = "drop"
            /\ Rejections(o.d) = <<"PolicyDrop">>
            /\ SameCaches(o.d, dp[e])
            /\ After(o).State = IF Existing(e, o) THEN Before(e, o).State ELSE "SynSend"

\* C8 witness: on a connection in SynReceived a SYN arrives whose claims
\* match a reject rule and an accept rule, and is dropped.
C8_Witness ==
    \E c \in NetCalls("A") : \E o \in {NetOut("A", c)} :
        /\ c.p.flags = TCPSynMask /\ o.handled /\ c.in.fault = "none"
        /\ CheckTCPAuthenticationOption(c.p)
        /\ ~parsePacketToken(NewTCPConnection(c.in.n0).Auth, ReadTCPData(c.p)).err
        /\ Search(RejectRcvRules, RcvClaims(c)).index >= 0
        /\ Search(AcceptRcvRules, RcvClaims(c)).index >= 0
        /\ Existing("A", o) /\ Before("A", o).State = "SynReceived"
        /\ o.verdict = "drop" /\ After(o).State = "SynReceived"

\* C9: a net-SYN-ACK with the option and a valid token, no hook failing: with
\* mutual authorization it is accepted exactly when its claims match no
\* RejectTxt rule and some AcceptTxt rule, without mutual authorization it is
\* always accepted; when accepted the state is SynAckReceived and net_reply
\* maps the flow hash of the packet to the connection, when dropped the state
\* and net_reply are as before.
C9_SynAckPolicy ==
    \A e \in Enforcers : \A c \in NetCalls(e) : \A o \in {NetOut(e, c)} :
        (/\ c.p.flags = TCPSynAckMask /\ o.handled /\ c.in.fault = "none"
         /\ ValidToken(e, c, o)) =>
            LET ok == \/ ~dp[e].mutualAuthorization
                      \/ /\ Search(RejectTxtRules, Claims(c)).index < 0
                         /\ Search(AcceptTxtRules, Claims(c)).index >= 0
            IN  /\ (o.verdict = "accept") <=> ok
                /\ ok => /\ After(o).State = "SynAckReceived"
                         /\ Has(o.d.netReply, L4FlowHash(c.p))
                         /\ o.d.netReply[L4FlowHash(c.p)] = o.cid
                /\ ~ok => /\ After(o).State = Before(e, o).State
                          /\ o.d.netReply = dp[e].netReply
                          /\ Rejections(o.d) = <<"PolicyDrop">>

\* C9 witness: without mutual authorization a SYN-ACK whose claims match a
\* RejectTxt rule is accepted and moves the connection to SynAckReceived.
C9_Witness ==
    \E c \in NetCalls("A") : \E o \in {NetOut("A", c)} :
        /\ c.p.flags = TCPSynAckMask /\ o.handled /\ c.in.fault = "none"
        /\ ValidToken("A", c, o)
        /\ ~dp["A"].mutualAuthorization
        /\ Search(RejectTxtRules, Claims(c)).index >= 0
        /\ o.verdict = "accept" /\ After(o).State = "SynAckReceived"
        /\ Before("A", o).State = "SynSend"

\* the nonces of the ACK token of c are the two nonces of the connection
NoncesMatch(e, c, o) ==
    /\ c.p.opt /\ ~Decode(TRUE, ReadTCPData(c.p)).err
    /\ Decode(TRUE, ReadTCPData(c.p)).RMT = Before(e, o).Auth.LocalContext
    /\ Decode(TRUE, ReadTCPData(c.p)).LCL = Before(e, o).Auth.RemoteContext

\* C10: a net-ACK handled in SynReceived or SynAckSend is accepted only if
\* the token's remote nonce is the connection's local_context and its local
\* nonce the connection's remote_context; otherwise it is dropped and
\* reported once as InvalidFormat, and the state, the AuthInfo and the five
\* caches are as before.
C10_AckNonceBinding ==
    \A e \in Enforcers : \A c \in NetCalls(e) : \A o \in {NetOut(e, c)} :
        (/\ c.p.flags = TCPAckMask /\ o.handled /\ Existing(e, o)
         /\ Before(e, o).State \in {"SynReceived", "SynAckSend"}) =>
            /\ o.verdict = "accept" => NoncesMatch(e, c, o)
            /\ (NoncesMatch(e, c, o) /\ c.in.fault = "none") => o.verdict = "accept"
            /\ ~NoncesMatch(e, c, o) =>
                  /\ o.verdict = "drop"
                  /\ Rejections(o.d) = <<"InvalidFormat">>
                  /\ After(o).State = Before(e, o).State
                  /\ After(o).Auth = Before(e, o).Auth
                  /\ SameCaches(o.d, dp[e])

\* C10 witness: in SynAckSend an ACK arrives whose token has the remote
\* nonce right and the local nonce wrong, and is dropped.
C10_Witness ==
    \E c \in NetCalls("A") : \E o \in {NetOut("A", c)} :
        /\ c.p.flags = TCPAckMask /\ o.handled /\ Existing("A", o)
        /\ Before("A", o).State = "SynAckSend"
        /\ c.p.opt /\ ~Decode(TRUE, ReadTCPData(c.p)).err
        /\ Decode(TRUE, ReadTCPData(c.p)).RMT = Before("A", o).Auth.LocalContext
        /\ Before("A", o).Auth.RemoteContext \in Nonces
        /\ Decode(TRUE, ReadTCPData(c.p)).LCL # Before("A", o).Auth.RemoteContext
        /\ o.verdict = "drop"

\* the connection of the flow at the initiator and at the responder
FlowHash == <<"A", LocalPort, "B", ServerPort>>
Initiator == dp["A"].conns[dp["A"].appOrig[FlowHash]]
Responder == dp["B"].conns[dp["B"].netOrig[FlowHash]]

\* C1: when the first calls are app-SYN at A, net-SYN at B, app-SYN-ACK at B,
\* net-SYN-ACK at A, app-ACK at A and net-ACK at B, in that order and with no
\* hook failing, none of them is dropped; the ACK token passes B's nonce
\* check, B's connection is in Data and the conntrack mark was updated; every
\* ACK-only segment handled after that, at A or at B, is passed as it came.
C1_HappyPath ==
    (hp.on /\ hp.n >= 1) =>
        /\ last.verdict = "accept"
        /\ hp = Established => last.bound /\ last.marked
        /\ hp.n >= Established.n =>
              /\ Has(dp["B"].netOrig, FlowHash) /\ Responder.State = "Data"
        /\ hp.n > Established.n => last.same

\* C1 witness: the handshake was made in order and ACK-only segments of both
\* workloads have been handled after it.
C1_Witness ==
    /\ hp = Settled /\ last.verdict = "accept" /\ last.same
    /\ \E p \in wire : p.src = "B" /\ p.flags = TCPAckMask

\* C2 (as stated): after the ACK exchange the connection is in Data at both
\* enforcers and the initiator's source_port cache has no entry for the
\* local port.
C2_BothDataAfterAck ==
    (hp.on /\ hp.n >= Established.n) =>
        /\ Has(dp["A"].appOrig, FlowHash) /\ Initiator.State = "Data"
        /\ Has(dp["B"].netOrig, FlowHash) /\ Responder.State = "Data"
        /\ ~Has(dp["A"].sourcePort, LocalPort)

\* C2 (amended): after the ACK exchange the responder's connection is in
\* Data; the initiator's is in AckSend, with the source_port entry for the
\* local port still there, until the initiator handles the next ACK-only
\* segment of its workload, which moves it to Data and removes the entry.
C2_InitiatorSettlesOnNextAck ==
    (hp.on /\ hp.n >= Established.n) =>
        /\ Has(dp["B"].netOrig, FlowHash) /\ Responder.State = "Data"
        /\ Has(dp["A"].appOrig, FlowHash)
        /\ IF hp = Settled
           THEN Initiator.State = "Data" /\ ~Has(dp["A"].sourcePort, LocalPort)
           ELSE /\ Initiator.State = "AckSend"
                /\ Has(dp["A"].sourcePort, LocalPort)
                /\ dp["A"].conns[dp["A"].sourcePort[LocalPort]] = Initiator

\* C2 witness: the exchange is done and the initiator has handled one more
\* ACK-only segment: Data at both ends, no source_port entry.
C2_Witness ==
    /\ hp = Settled
    /\ Has(dp["A"].appOrig, FlowHash) /\ Initiator.State = "Data"
    /\ Has(dp["B"].netOrig, FlowHash) /\ Responder.State = "Data"
    /\ ~Has(dp["A"].sourcePort, LocalPort)


\* ---------------------------------------------------------------- the locks
\* the steps a worker takes between conn.Lock() and the return of the entry
\* point: the pre hook, the handler and its token and state work
HandlerSteps == {"dispatch", "context.Lock", "lookup", "context.Unlock", "handle",
                 "handle.external", "handle.token", "conn.Unlock"}
InHandler(w) == job[w].busy /\ Op(w) \in HandlerSteps
Resolving(w) == job[w].busy /\ Op(w) \in {"conn.Touch", "conn.Lock"}
\* the step of worker w does not wait for a lock another worker holds
CanStep(w) ==
    /\ Op(w) \in {"conn.Touch", "conn.Lock"} => connLock[job[w].cid] = Unlocked
    /\ Op(w) = "context.Lock" => ctxLock = Unlocked

\* C3: with workers in both entry points in parallel, a worker past
\* resolution and before its verdict holds the lock of its connection, so at
\* most one worker is there for a connection; the lock is held by no worker
\* outside that stretch, and it is given up only as the entry point returns.
C3_ConnectionLockHeld ==
    /\ [](/\ \A w \in Workers : InHandler(w) => connLock[job[w].cid] = w
          /\ \A w \in Workers : \A v \in Workers \ {w} :
                InHandler(w) /\ InHandler(v) => job[w].cid # job[v].cid
          /\ \A i \in 1..MaxFlows : connLock[i] \in Workers =>
                InHandler(connLock[i]) /\ job[connLock[i]].cid = i)
    /\ [][\A i \in 1..MaxFlows : \A w \in Workers :
             connLock[i] = w /\ connLock'[i] # w =>
                Op(w) = "conn.Unlock" /\ ~job'[w].busy /\ connLock'[i] = Unlocked]_vars
\* a worker is in a handler with the lock while the other worker, resolved to
\* the same connection, waits for it
C3_Witness ==
    \E w \in Workers : \E v \in Workers \ {w} :
        /\ job[w].busy /\ Op(w) \in {"handle", "handle.token", "handle.external"}
        /\ connLock[job[w].cid] = w
        /\ Resolving(v) /\ job[v].cid = job[w].cid

\* C4: the PUContext lock is held only by a worker that holds the lock of its
\* connection, no worker about to take a connection lock holds the PUContext
\* lock, a handler has released the PUContext lock on every path by the time
\* the entry point returns, a worker that has returned holds no lock, and
\* while a worker is in a call some worker can take its next step.
C4_LockOrderNoDeadlock ==
    /\ ctxLock \in Workers =>
          InHandler(ctxLock) /\ connLock[job[ctxLock].cid] = ctxLock
    /\ \A w \in Workers : Resolving(w) => ctxLock # w
    /\ \A w \in Workers : job[w].busy /\ Op(w) = "conn.Unlock" => ctxLock # w
    /\ \A w \in Workers : ~job[w].busy =>
          ctxLock # w /\ \A i \in 1..MaxFlows : connLock[i] # w
    /\ (\E w \in Workers : job[w].busy) =>
          \E w \in Workers : job[w].busy /\ CanStep(w)
\* a worker has left processApplicationSynPacket's cache read by the early
\* return, and the other worker, holding its own connection, has the
\* PUContext lock
C4_Witness ==
    \E w \in Workers : \E v \in Workers \ {w} :
        /\ job[w].busy /\ Op(w) = "handle.external"
        /\ ctxLock = v
        /\ connLock[job[w].cid] = w /\ connLock[job[v].cid] = v

\* ------------------------------------------------------ resolution misses
\* the network SYN-ACK of the call finds nothing in the source port cache
UnknownSynAck(e, c) ==
    /\ c.p.flags = TCPSynAckMask
    /\ ~Has(dp[e].sourcePort, SourcePortHash(c.p, PacketTypeNetwork))

\* C11 (as stated): a network SYN-ACK whose source port hash is not in the
\* source port cache is dropped, with no report and no change to the caches
\* and connections.
C11_UnknownSynAckDropped ==
    \A e \in Enforcers : \A c \in NetCalls(e) : \A o \in {NetOut(e, c)} :
        UnknownSynAck(e, c) =>
            /\ o.verdict = "drop"
            /\ o.d.reports = << >>
            /\ SameCaches(o.d, dp[e]) /\ o.d.conns = dp[e].conns

\* C11 (amended): such a SYN-ACK is let through as it came (the entry point
\* returns no error), no handler runs, nothing is reported and the datapath
\* is as before.
C11_UnknownSynAckPassed ==
    \A e \in Enforcers : \A c \in NetCalls(e) : \A o \in {NetOut(e, c)} :
        UnknownSynAck(e, c) =>
            /\ o.verdict = "accept" /\ o.p = c.p /\ ~o.handled
            /\ o.d.reports = << >> /\ o.d.marks = << >>
            /\ o.d = dp[e]

\* C11 witness: the enforcer holds a connection from an accepted SYN but no
\* source port entry, and a SYN-ACK with a valid token arrives and passes.
C11_Witness ==
    \E c \in NetCalls("A") : \E o \in {NetOut("A", c)} :
        /\ UnknownSynAck("A", c)
        /\ c.p.opt /\ ~Decode(FALSE, ReadTCPData(c.p)).err
        /\ Len(dp["A"].conns) > 0 /\ Has(dp["A"].netOrig, NetFlow("A", "B"))
        /\ o.verdict = "accept"


\* ------------------------------------------------------------- other flags
\* the handshake state and the AuthInfo of every connection are as before
SameHandshake(d1, d2) ==
    /\ Len(d1.conns) = Len(d2.conns)
    /\ \A i \in 1..Len(d1.conns) :
          d1.conns[i].State = d2.conns[i].State /\ d1.conns[i].Auth = d2.conns[i].Auth
\* the reply or the origin cache of the entry point holds the flow of p
Tracked(e, app, p) ==
    IF app THEN Has(dp[e].appReply, L4FlowHash(p)) \/ Has(dp[e].appOrig, L4FlowHash(p))
    ELSE Has(dp[e].netReply, L4FlowHash(p)) \/ Has(dp[e].netOrig, L4FlowHash(p))

\* C12 (as stated): a packet with neither SYN nor ACK set is passed unchanged
\* by both entry points, whether or not its flow is in the caches, and no
\* connection state changes.
C12_OtherFlagsAlwaysPassed ==
    /\ \A e \in Enforcers : \A c \in AppCalls(e) : \A o \in {AppOut(e, c)} :
          (c.p.flags = NoSynAckFlags /\ c.in.fault = "none") =>
              o.verdict = "accept" /\ o.p = c.p /\ SameHandshake(o.d, dp[e])
    /\ \A e \in Enforcers : \A c \in NetCalls(e) : \A o \in {NetOut(e, c)} :
          (c.p.flags = NoSynAckFlags /\ c.in.fault = "none") =>
              o.verdict = "accept" /\ o.p = c.p /\ SameHandshake(o.d, dp[e])

\* C12 (amended): such a packet never changes a handshake state, an AuthInfo
\* or a connection cache, is never reported and comes back as it went in; it
\* is passed exactly when its flow is in the reply or the origin cache of the
\* entry point and no service hook fails, and dropped otherwise.
C12_OtherFlagsPassedWhenTracked ==
    /\ \A e \in Enforcers : \A c \in AppCalls(e) : \A o \in {AppOut(e, c)} :
          c.p.flags = NoSynAckFlags =>
              /\ o.p = c.p /\ SameHandshake(o.d, dp[e]) /\ SameCaches(o.d, dp[e])
              /\ o.d.reports = << >> /\ o.d.marks = << >>
              /\ o.verdict = "accept" <=> (Tracked(e, TRUE, c.p) /\ c.in.fault = "none")
    /\ \A e \in Enforcers : \A c \in NetCalls(e) : \A o \in {NetOut(e, c)} :
          c.p.flags = NoSynAckFlags =>
              /\ o.p = c.p /\ SameHandshake(o.d, dp[e]) /\ SameCaches(o.d, dp[e])
              /\ o.d.reports = << >> /\ o.d.marks = << >>
              /\ o.verdict = "accept" <=> (Tracked(e, FALSE, c.p) /\ c.in.fault = "none")

\* C12 witness: a packet without SYN and ACK arrives from the network for a
\* connection in the middle of the handshake and is passed; one for a flow
\* the caches do not hold is dropped.
C12_Witness ==
    /\ \E c \in NetCalls("A") : \E o \in {NetOut("A", c)} :
          /\ c.p.flags = NoSynAckFlags /\ Existing("A", o) /\ o.handled
          /\ Before("A", o).State = "SynReceived"
          /\ o.verdict = "accept"
    /\ \E c \in NetCalls("A") : \E o \in {NetOut("A", c)} :
          /\ c.p.flags = NoSynAckFlags /\ ~Tracked("A", FALSE, c.p) /\ c.in.fault = "none"
          /\ o.verdict = "drop"


\* ------------------------------------------------------- unprotected peers
\* the network SYN-ACK of the call has no option and comes from a peer that
\* is not in the external IP cache
NewExternalSynAck(e, c) ==
    /\ c.p.flags = TCPSynAckMask /\ ~CheckTCPAuthenticationOption(c.p)
    /\ ~Has(dp[e].ctx.externalIPCache, <<c.p.src, c.p.sport>>)
AclRefuses(c) ==
    \/ GetMatchingAction(c.p.src, c.p.sport).err
    \/ GetMatchingAction(c.p.src, c.p.sport).plc.Action = Reject

\* C13: after a protected SYN (state SynSend), a network SYN-ACK without the
\* option from a peer that is not in the external IP cache and that
\* ApplicationACLs reject or do not know is dropped; the state stays SynSend,
\* the external IP cache and the connection caches are as before.
C13_RefusedExternalSynAck ==
    \A e \in Enforcers : \A c \in NetCalls(e) : \A o \in {NetOut(e, c)} :
        (/\ NewExternalSynAck(e, c) /\ AclRefuses(c)
         /\ o.handled /\ Existing(e, o) /\ Before(e, o).State = "SynSend") =>
            /\ o.verdict = "drop"
            /\ After(o).State = "SynSend" /\ After(o).Auth = Before(e, o).Auth
            /\ o.d.ctx.externalIPCache = dp[e].ctx.externalIPCache
            /\ SameCaches(o.d, dp[e])

\* C13 witness: the SYN went to the protected peer (app_orig and source_port
\* hold the connection); one such SYN-ACK comes from a host the ACLs reject
\* and one from a host they do not know, and both are dropped.
C13_Witness ==
    /\ Has(dp["A"].appOrig, AppFlow("A", "B")) /\ Has(dp["A"].sourcePort, LocalPort)
    /\ \E c \in NetCalls("A") : \E o \in {NetOut("A", c)} :
          /\ NewExternalSynAck("A", c) /\ GetMatchingAction(c.p.src, c.p.sport).err
          /\ o.handled /\ Existing("A", o) /\ Before("A", o).State = "SynSend"
          /\ o.verdict = "drop" /\ Has(o.d.sourcePort, LocalPort)
    /\ \E c \in NetCalls("A") : \E o \in {NetOut("A", c)} :
          /\ NewExternalSynAck("A", c)
          /\ ~GetMatchingAction(c.p.src, c.p.sport).err
          /\ GetMatchingAction(c.p.src, c.p.sport).plc.Action = Reject
          /\ o.handled /\ Existing("A", o) /\ Before("A", o).State = "SynSend"
          /\ o.verdict = "drop" /\ Has(o.d.sourcePort, LocalPort)


\* C14 (as stated): when a network SYN-ACK without the option is accepted,
\* the app_orig entry under the flow hash of the SYN (local to remote) and
\* the source_port entry under the local port are gone afterwards; for a peer
\* that was not in the external IP cache the cache now maps it to the policy
\* of the ACLs and the connection is in Data.
C14_ExternalFlowReleased ==
    \A e \in Enforcers : \A c \in NetCalls(e) : \A o \in {NetOut(e, c)} :
        (/\ c.p.flags = TCPSynAckMask /\ ~CheckTCPAuthenticationOption(c.p)
         /\ o.handled /\ Existing(e, o) /\ o.verdict = "accept") =>
            /\ ~Has(o.d.appOrig, L4ReverseFlowHash(c.p))
            /\ ~Has(o.d.sourcePort, SourcePortHash(c.p, PacketTypeNetwork))
            /\ NewExternalSynAck(e, c) =>
                  /\ Has(o.d.ctx.externalIPCache, <<c.p.src, c.p.sport>>)
                  /\ o.d.ctx.externalIPCache[<<c.p.src, c.p.sport>>]
                        = GetMatchingAction(c.p.src, c.p.sport).plc
                  /\ After(o).State = "Data"


\* C15 (as stated): when an app-SYN-ACK is handled for a connection in Data
\* that is not a service connection, the net_orig entry under the flow hash
\* of the SYN (remote to local) and the app_reply entry under its reverse are
\* gone afterwards, the conntrack mark was updated and the packet is passed
\* as it came.
C15_DataSynAckCleansCaches ==
    \A e \in Enforcers : \A c \in AppCalls(e) : \A o \in {AppOut(e, c)} :
        (/\ c.p.flags = TCPSynAckMask /\ o.handled /\ Existing(e, o)
         /\ Before(e, o).State = "Data" /\ ~After(o).ServiceConnection) =>
            /\ ~Has(o.d.netOrig, L4ReverseFlowHash(c.p))
            /\ ~Has(o.d.appReply, L4FlowHash(c.p))
            /\ o.d.marks # << >>
            /\ o.p = c.p
            /\ c.in.fault = "none" => o.verdict = "accept"


\* ---------------------------------------------------- token engine failures
\* the call makes the token engine sign a token, and signing fails: an
\* app-SYN for a destination outside the external IP cache with no valid
\* cached SYN token, an app-SYN-ACK in SynReceived or SynAckSend, an app-ACK
\* in SynAckReceived or SynSend
SigningFails(e, c, o) ==
    /\ c.in.fault = "sign" /\ o.handled
    /\ \/ /\ c.p.flags = TCPSynMask
          /\ ~Has(dp[e].ctx.externalIPCache, <<c.p.dst, c.p.dport>>)
          /\ ~(dp[e].ctx.synValid /\ dp[e].ctx.synToken.kind # "none")
       \/ /\ c.p.flags = TCPSynAckMask /\ Existing(e, o)
          /\ Before(e, o).State \in {"SynReceived", "SynAckSend"}
       \/ /\ c.p.flags = TCPAckMask /\ Existing(e, o)
          /\ Before(e, o).State \in {"SynAckReceived", "SynSend"}

\* C16 (as stated): when the token engine fails while a SYN, SYN-ACK or ACK
\* token is created, the packet is dropped with nothing attached to it, and
\* the handshake state and the caches are as before the packet.
C16_TokenFailureDropsPacket ==
    \A e \in Enforcers : \A c \in AppCalls(e) : \A o \in {AppOut(e, c)} :
        SigningFails(e, c, o) =>
            /\ o.verdict = "drop"
            /\ o.p = c.p
            /\ SameCaches(o.d, dp[e])
            /\ Existing(e, o) => After(o).State = Before(e, o).State


\* ------------------------------------------------------------ parse failures
\* the connection of the call as the handler finds it: the cached one, or
\* the one the resolver has just allocated
Found(e, c, o) == IF Existing(e, o) THEN Before(e, o) ELSE NewTCPConnection(c.in.n0)
\* the handler of the network call parses the token of the packet and the
\* parsing fails
ParseFails(e, c, o) ==
    /\ o.handled /\ o.cid # 0 /\ CheckTCPAuthenticationOption(c.p)
    /\ \/ /\ c.p.flags = TCPSynMask
          /\ parsePacketToken(Found(e, c, o).Auth, ReadTCPData(c.p)).err
       \/ /\ c.p.flags = TCPSynAckMask /\ ReadTCPData(c.p) # NoData
          /\ parsePacketToken(Found(e, c, o).Auth, ReadTCPData(c.p)).err
       \/ /\ c.p.flags = TCPAckMask
          /\ Found(e, c, o).State \in {"SynReceived", "SynAckSend"}
          /\ parseAckToken(Found(e, c, o).Auth, ReadTCPData(c.p))

\* C17: when the token of a net-SYN, net-SYN-ACK or net-ACK cannot be parsed
\* (it does not decode, it has no transmitter label, the nonces of an ACK
\* token do not match), the packet is dropped and the state and all of the
\* AuthInfo of the connection are as they were.
C17_ParseFailureLeavesConnection ==
    \A e \in Enforcers : \A c \in NetCalls(e) : \A o \in {NetOut(e, c)} :
        ParseFails(e, c, o) =>
            /\ o.verdict = "drop"
            /\ After(o).State = Found(e, c, o).State
            /\ After(o).Auth = Found(e, c, o).Auth

\* C17 witness: the connection has the remote context of an accepted SYN; a
\* SYN with another nonce but no transmitter label, and an ACK whose nonces
\* do not match, are dropped.
C17_Witness ==
    /\ \E c \in NetCalls("A") : \E o \in {NetOut("A", c)} :
          /\ c.p.flags = TCPSynMask /\ ParseFails("A", c, o) /\ Existing("A", o)
          /\ ~Decode(FALSE, ReadTCPData(c.p)).err
          /\ Before("A", o).Auth.RemoteContext \in Nonces
          /\ Decode(FALSE, ReadTCPData(c.p)).nonce # Before("A", o).Auth.RemoteContext
          /\ o.verdict = "drop"
    /\ \E c \in NetCalls("A") : \E o \in {NetOut("A", c)} :
          /\ c.p.flags = TCPAckMask /\ ParseFails("A", c, o)
          /\ ~Decode(TRUE, ReadTCPData(c.p)).err
          /\ o.verdict = "drop"


AclDecides(e, c) ==
    /\ ~CheckTCPAuthenticationOption(c.p)
    /\ \/ c.p.flags = TCPSynMask
       \/ NewExternalSynAck(e, c)

Marked(d) == {d.marks[i] : i \in 1..Len(d.marks)}
\* the inputs of a call that follows call c: its nonces are new after c
FreeAfter(c) == Free \ {c.in.n0, c.in.n1}
InputAfter(c) ==
    [n0 |-> Fresh(FreeAfter(c)), n1 |-> Second(FreeAfter(c)),
     fault |-> "none", svc |-> FALSE]
\* the flows marked by a call that enforcer e handles after the call that
\* returned o: any packet from the application, any packet from the network
MarkedNext(e, c, o) ==
    LET d == Collect(ClearEffects(o.d))
    IN  UNION ({ Marked(processApplicationTCPPackets(d, p, InputAfter(c)).d) :
                   p \in {q \in AppPackets(e) :
                            /\ ~Allocates(d.appOrig, q)
                            /\ Cardinality(FreeAfter(c)) >= Draws(d.appOrig, TRUE, q)} }
               \cup { Marked(processNetworkTCPPackets(d, p, InputAfter(c)).d) :
                        p \in {q \in NetPackets(e) : ~Allocates(d.netOrig, q)} })
MarksOnce(e, c, o) ==
    /\ Len(o.d.marks) <= 1
    /\ o.d.marks # << >> =>
          /\ o.cid # 0 /\ After(o).State \in {"Data", "AckSend"}
          /\ ~After(o).ServiceConnection
          /\ Marked(o.d) \cap MarkedNext(e, c, o) = {}

\* C19 (as stated): update_mark is invoked at most once per flow and only
\* when the handshake is complete on this side: the call that follows a call
\* that marked a flow does not mark it again, an app-ACK handled in SynSend
\* does not mark, and no call marks the flow of a service connection.
C19_MarkedOncePerFlow ==
    \A e \in Enforcers :
      /\ \A c \in AppCalls(e) : \A o \in {AppOut(e, c)} :
            /\ MarksOnce(e, c, o)
            /\ (/\ c.p.flags = TCPAckMask /\ o.handled /\ Existing(e, o)
                /\ Before(e, o).State = "SynSend") => o.d.marks = << >>
      /\ \A c \in NetCalls(e) : \A o \in {NetOut(e, c)} : MarksOnce(e, c, o)


C20_WitnessRemote ==
    /\ dp["A"].mode = RemoteContainer /\ dp["A"].conns # << >>
    /\ \E c \in StrayCalls("A") : \E o \in {NetOut("A", c)} :
          Unresolved(dp["A"], c.p) /\ o.verdict = "drop"


\* ------------------------------------------------------------- app-SYN
\* the application SYN of the call goes to a destination that is in the
\* external IP cache
ToCachedExternal(e, c) == Has(dp[e].ctx.externalIPCache, <<c.p.dst, c.p.dport>>)
TrackedAsSent(o, p) ==
    /\ Has(o.d.appOrig, L4FlowHash(p)) /\ o.d.appOrig[L4FlowHash(p)] = o.cid
    /\ Has(o.d.sourcePort, SourcePortHash(p, PacketTypeApplication))
    /\ o.d.sourcePort[SourcePortHash(p, PacketTypeApplication)] = o.cid

AckHandled(e, c, o) ==
    /\ c.p.flags = TCPAckMask /\ o.handled /\ Existing(e, o) /\ c.in.fault = "none"
SourcePortKey(p) == SourcePortHash(p, PacketTypeApplication)

C22_WitnessSent ==
    \E c \in AppCalls("A") : \E o \in {AppOut("A", c)} :
        /\ AckHandled("A", c, o) /\ Before("A", o).State = "SynSend"
        /\ After(o).State = "AckSend" /\ o.p.opt
C22_WitnessDropped ==
    \E c \in AppCalls("A") : \E o \in {AppOut("A", c)} :
        /\ AckHandled("A", c, o) /\ Before("A", o).State = "SynAckSend"
        /\ o.verdict = "drop"


\* ------------------------------------------------------------- net-ACK
\* the network ACK of the call is handled for a cached connection
NetAckHandled(e, c, o) == c.p.flags = TCPAckMask /\ o.handled /\ Existing(e, o)

\* C23: a net-ACK in Data or AckSend passes with state, AuthInfo and caches
\* unchanged and no report; in SynSend or SynAckReceived it passes unchanged
\* for a service connection and is otherwise dropped with one InvalidState
\* report, the state unchanged; a net-ACK sets Data only from SynReceived or
\* SynAckSend and only when its token passed the check.
C23_NetAckOutsideHandshake ==
    \A e \in Enforcers : \A c \in NetCalls(e) : \A o \in {NetOut(e, c)} :
        NetAckHandled(e, c, o) =>
            /\ Before(e, o).State \in {"Data", "AckSend"} =>
                  /\ c.in.fault = "none" => o.verdict = "accept"
                  /\ o.p = c.p /\ o.d.reports = << >>
                  /\ After(o).State = Before(e, o).State
                  /\ After(o).Auth = Before(e, o).Auth /\ SameCaches(o.d, dp[e])
            /\ (Before(e, o).State \in {"SynSend", "SynAckReceived"}
                  /\ After(o).ServiceConnection) =>
                  /\ c.in.fault = "none" => o.verdict = "accept"
                  /\ o.p = c.p /\ o.d.reports = << >>
                  /\ After(o).State = Before(e, o).State
            /\ (Before(e, o).State \in {"SynSend", "SynAckReceived"}
                  /\ ~After(o).ServiceConnection) =>
                  /\ o.verdict = "drop" /\ Rejections(o.d) = <<"InvalidState">>
                  /\ After(o).State = Before(e, o).State
            /\ (After(o).State = "Data" /\ Before(e, o).State # "Data") =>
                  /\ Before(e, o).State \in {"SynReceived", "SynAckSend"}
                  /\ CheckTCPAuthenticationOption(c.p)
                  /\ ~parseAckToken(Before(e, o).Auth, ReadTCPData(c.p))

\* C23 witness: an ACK with a token whose nonces are those of the
\* connection arrives in SynAckReceived and is dropped as InvalidState.
C23_Witness ==
    \E c \in NetCalls("A") : \E o \in {NetOut("A", c)} :
        /\ NetAckHandled("A", c, o) /\ Before("A", o).State = "SynAckReceived"
        /\ c.p.opt /\ ~parseAckToken(Before("A", o).Auth, ReadTCPData(c.p))
        /\ ~After(o).ServiceConnection
        /\ o.verdict = "drop" /\ After(o).State = "SynAckReceived"

\* an ACK in SynSend on a service connection is passed; an ACK in AckSend is
\* passed
C23_WitnessService ==
    /\ \E c \in NetCalls("A") : \E o \in {NetOut("A", c)} :
          /\ NetAckHandled("A", c, o) /\ Before("A", o).State = "SynSend"
          /\ After(o).ServiceConnection /\ o.verdict = "accept"
C23_WitnessAckSend ==
    /\ \E c \in NetCalls("A") : \E o \in {NetOut("A", c)} :
          /\ NetAckHandled("A", c, o) /\ Before("A", o).State = "AckSend"
          /\ c.p.opt /\ o.verdict = "accept" /\ o.p = c.p


\* ---------------------------------------------------------- app-SYN-ACK
\* the application SYN-ACK of the call is handled for a cached connection
SynAckHandled(e, c, o) == c.p.flags = TCPSynAckMask /\ o.handled /\ Existing(e, o)

\* C24: an app-SYN-ACK in SynReceived or SynAckSend leaves with a token of
\* the PU's identity and the stored remote nonce, and the state is
\* SynAckSend; in SynSend, SynAckReceived or AckSend, and in Data on a
\* service connection, it is dropped and the state is unchanged.
C24_AppSynAckTable ==
    \A e \in Enforcers : \A c \in AppCalls(e) : \A o \in {AppOut(e, c)} :
        SynAckHandled(e, c, o) =>
            /\ (Before(e, o).State \in {"SynReceived", "SynAckSend"} /\ c.in.fault = "none") =>
                  /\ o.verdict = "accept" /\ After(o).State = "SynAckSend"
                  /\ CheckTCPAuthenticationOption(o.p)
                  /\ ~Decode(FALSE, ReadTCPData(o.p)).err
                  /\ Decode(FALSE, ReadTCPData(o.p)).T = dp[e].ctx.Identity
                  /\ Decode(FALSE, ReadTCPData(o.p)).RMT = Before(e, o).Auth.RemoteContext
                  /\ After(o).Auth.RemoteContext = Before(e, o).Auth.RemoteContext
            /\ (\/ Before(e, o).State \in {"SynSend", "SynAckReceived", "AckSend"}
                \/ Before(e, o).State = "Data" /\ After(o).ServiceConnection) =>
                  /\ o.verdict = "drop" /\ o.p = c.p
                  /\ After(o).State = Before(e, o).State
                  /\ After(o).Auth = Before(e, o).Auth /\ SameCaches(o.d, dp[e])

\* C24 witness: the SYN-ACK is sent again in SynAckSend and gets a token
\* with the remote nonce again.
C24_Witness ==
    \E c \in AppCalls("A") : \E o \in {AppOut("A", c)} :
        /\ SynAckHandled("A", c, o) /\ Before("A", o).State = "SynAckSend"
        /\ c.in.fault = "none" /\ Before("A", o).Auth.RemoteContext \in Nonces
        /\ o.verdict = "accept" /\ After(o).State = "SynAckSend"
        /\ ReadTCPData(o.p).RMT = Before("A", o).Auth.RemoteContext

\* a SYN-ACK in Data on a service connection and one in AckSend are dropped
C24_WitnessDropped ==
    /\ \E c \in AppCalls("A") : \E o \in {AppOut("A", c)} :
          /\ SynAckHandled("A", c, o) /\ Before("A", o).State = "Data"
          /\ After(o).ServiceConnection /\ o.verdict = "drop"
C24_WitnessAckSend ==
    /\ \E c \in AppCalls("A") : \E o \in {AppOut("A", c)} :
          /\ SynAckHandled("A", c, o) /\ Before("A", o).State = "AckSend"
          /\ o.verdict = "drop"


\* ------------------------------------------------ SYN of an unprotected peer
\* the network SYN of the call has no option and its handler runs
PlainSyn(c, o) ==
    c.p.flags = TCPSynMask /\ ~CheckTCPAuthenticationOption(c.p) /\ o.handled /\ o.cid # 0
NetworkAclRefuses(c) ==
    \/ GetMatchingAction(c.p.src, c.p.dport).err
    \/ GetMatchingAction(c.p.src, c.p.dport).plc.Action = Reject
\* the SYN-ACK with which the workload answers the SYN of the call, and what
\* the application entry point returns for it after the call
AnswerTo(p) == Packet(p.dst, p.dport, p.src, p.sport, TCPSynAckMask, PUMark, FALSE, NoData)
Answered(c, o) ==
    processApplicationTCPPackets(Collect(ClearEffects(o.d)), AnswerTo(c.p), InputAfter(c))

\* C25: for a network SYN without the option the NetworkACLs decide. When
\* they reject it or do not know it, it is dropped with an external-service
\* flow report and neither state nor caches change. When they accept it, the
\* state is Data and net_orig[flow hash] and app_reply[reverse flow hash] map
\* to the connection; the workload's SYN-ACK then resolves to that
\* connection and is passed as it is.
C25_PlainSynByAcl ==
    \A e \in Enforcers : \A c \in NetCalls(e) : \A o \in {NetOut(e, c)} :
        PlainSyn(c, o) =>
            /\ NetworkAclRefuses(c) =>
                  /\ o.verdict = "drop" /\ o.p = c.p
                  /\ o.d.reports = <<[kind |-> "external", reason |-> ""]>>
                  /\ SameCaches(o.d, dp[e])
                  /\ Existing(e, o) =>
                        After(o).State = Before(e, o).State /\ After(o).Auth = Before(e, o).Auth
            /\ (~NetworkAclRefuses(c) /\ c.in.fault = "none") =>
                  /\ o.verdict = "accept" /\ o.p = c.p /\ After(o).State = "Data"
                  /\ Has(o.d.netOrig, L4FlowHash(c.p)) /\ o.d.netOrig[L4FlowHash(c.p)] = o.cid
                  /\ Has(o.d.appReply, L4ReverseFlowHash(c.p))
                  /\ o.d.appReply[L4ReverseFlowHash(c.p)] = o.cid
                  /\ \A r \in {Answered(c, o)} :
                        /\ r.cid # 0 /\ r.cid = Collect(ClearEffects(o.d)).netOrig[L4FlowHash(c.p)]
                        /\ ~After(o).ServiceConnection =>
                              r.handled /\ r.verdict = "accept" /\ r.p = AnswerTo(c.p)

\* C25 witness: a SYN from the host the ACLs accept allocates a connection,
\* which is in Data and in both caches, and the answer passes.
C25_Witness ==
    \E c \in NetCalls("A") : \E o \in {NetOut("A", c)} :
        /\ PlainSyn(c, o) /\ ~NetworkAclRefuses(c) /\ c.in.fault = "none"
        /\ ~Existing("A", o) /\ ~After(o).ServiceConnection
        /\ After(o).State = "Data" /\ Answered(c, o).verdict = "accept"

\* a SYN from the host the ACLs reject is dropped
C25_WitnessRefused ==
    \E c \in NetCalls("A") : \E o \in {NetOut("A", c)} :
        /\ PlainSyn(c, o) /\ GetMatchingAction(c.p.src, c.p.dport).plc.Action = Reject
        /\ o.verdict = "drop"


\* ------------------------------------------------ flows to a cached peer
\* the application SYN of the call opens a new flow to a peer that is in the
\* external IP cache, and no collaborator fails
NewFlowToCached(e, c) ==
    /\ c.p.flags = TCPSynMask /\ c.in.fault = "none"
    /\ ToCachedExternal(e, c) /\ Allocates(dp[e].appOrig, c.p)
\* what the entry points return for the peer's SYN-ACK without the option
\* after the call that returned o, and for the workload's segment with the
\* flags fl after that
PlainSynAck(p) == Packet(p.dst, p.dport, p.src, p.sport, TCPSynAckMask, PUMark, FALSE, NoData)
SynAckAfter(c, o) ==
    processNetworkTCPPackets(Collect(ClearEffects(o.d)), PlainSynAck(c.p), InputAfter(c))
SegmentAfter(c, o, fl) ==
    processApplicationTCPPackets(Collect(ClearEffects(SynAckAfter(c, o).d)),
                                 [c.p EXCEPT !.flags = fl], InputAfter(c))

\* C26 (as stated): the SYN of a new flow to a peer in the external IP cache
\* passes unmodified, and once the peer's SYN-ACK without the option has
\* been accepted, the workload's ACK and its later segments pass unmodified.
C26_CachedPeerFlowUntouched ==
    \A e \in Enforcers : \A c \in ExternalAppCalls(e) : \A o \in {AppOut(e, c)} :
        NewFlowToCached(e, c) =>
            /\ o.verdict = "accept" /\ o.p = c.p
            /\ SynAckAfter(c, o).verdict = "accept" =>
                  \A fl \in {TCPAckMask, NoSynAckFlags} :
                      /\ SegmentAfter(c, o, fl).verdict = "accept"
                      /\ SegmentAfter(c, o, fl).p = [c.p EXCEPT !.flags = fl]


\* ---- C27 ----
\* the SYN a worker has attached a token to, its connection still locked
Attached(w) ==
    /\ job[w].busy /\ "attached" \in DOMAIN job[w] /\ job[w].attached
    /\ job[w].p.data # NoData
\* C27 (as stated): when two workers handle the SYNs of two connections of
\* the PU, the nonce in the token bytes attached to a SYN is the
\* LocalContext stored on the connection of that SYN, and the LocalContext
\* values of two connections that have sent a SYN differ.
C27_SynNonceBinding ==
    /\ \A w \in Workers :
          Attached(w) => job[w].p.data.nonce = dp["A"].conns[job[w].cid].Auth.LocalContext
    /\ \A w, v \in Workers :
          (Attached(w) /\ Attached(v) /\ job[w].cid # job[v].cid)
              => dp["A"].conns[job[w].cid].Auth.LocalContext
                     # dp["A"].conns[job[v].cid].Auth.LocalContext


\* ---- C28 ----
\* no call is running
Quiet == \A w \in Workers : ~job[w].busy
\* C28 (as stated): after any interleaving of workers handling SYNs of one
\* flow, appOrigConnectionTracker under the hash of the flow and
\* sourcePortConnectionCache under the hash of its source port refer to the
\* same connection.
C28_OneConnectionPerFlow ==
    Quiet =>
        \A p \in TokenPackets :
            (/\ Has(dp["A"].appOrig, L4FlowHash(p))
             /\ Has(dp["A"].sourcePort, SourcePortHash(p, PacketTypeApplication)))
                => dp["A"].appOrig[L4FlowHash(p)]
                       = dp["A"].sourcePort[SourcePortHash(p, PacketTypeApplication)]


\* ---- C29 ----
\* createSynPacketToken takes the token the PUContext caches
ReusesCached(e, c) == c.p.flags = TCPSynMask /\ Reuses(dp[e].ctx, c.in)
\* C29 (as stated): after any sequence of SYN, SYN-ACK and ACK segments of
\* the PU, a SYN that reuses the cached token within its window is sent
\* with a token of SYN token creation: the claims of the identity and no
\* remote nonce, never the bytes signed for the SYN-ACK of a connection.
C29_CachedTokenIsSynToken ==
    \A e \in Enforcers : \A c \in ServedAppCalls(e) : \A o \in {AppOut(e, c)} :
        (ReusesCached(e, c) /\ o.verdict = "accept" /\ o.p.opt)
            => (o.p.data.ack = FALSE /\ o.p.data.RMT = NoNonce)


\* ---- C30 ----
\* the connection of the flow at enforcer e is in state s
FlowState(e, s) == Len(dp[e].conns) > 0 /\ dp[e].conns[1].State = s
\* C30 (as stated): once the ACK that carries the token of the initiator is
\* lost, with the responder resending its SYN-ACK, the initiator sending ACK
\* segments and every later segment delivered, the connection of the
\* responder eventually reaches Data.
C30_RecoversFromLostAck == (hp = Lost) ~> FlowState("B", "Data")

====
